---- MODULE Spec2Model ----
(***************************************************************************)
(* A model of the PolyLSP client hub (src/src/core/polyClient.ts): the     *)
(* adapter registry and its lifecycle, the document store, routing, the    *)
(* workspace-edit engine, the listener tables with their subscriptions,    *)
(* and teardown, with the text helpers of utils/textEdit, the JSON-RPC     *)
(* connection of utils/jsonRpc and the adapters that run a language server *)
(* as a child process (adapters/go, adapters/typescript).                  *)
(***************************************************************************)
EXTENDS Integers, Sequences, FiniteSets, TLC

VARIABLES
  disposed,        \* PolyClient.disposed
  languages,       \* PolyClient.languages: languageId -> index into records
  records,         \* every AdapterRecord ever created, in creation order
  documents,       \* PolyClient.documents: normalized uri -> TextDocument
  errorListeners,  \* PolyClient.errorListeners
  handlerCalls,    \* per record: the document-sync handler invocations observed
  issuedOps,       \* per record: the host's document calls that concerned it
  cleanupRuns,     \* per record: how often each cleanup routine has run
  errorEvents,     \* the AdapterErrorEvents delivered to the error listeners
  settled,         \* per record: how its registerLanguage call ended
  result,          \* the outcome of the latest call
  docOps,          \* number of host document calls made so far
  disposing,       \* dispose() is waiting for its cleanup tasks to settle
  diagnosticListeners,    \* PolyClient.diagnosticListeners: uri -> listeners
  workspaceListeners,     \* PolyClient.workspaceListeners: kind -> listeners
  notificationListeners,  \* PolyClient.notificationListeners: method -> listeners
  subscriptions,   \* every Subscription the client has returned, in creation order
  rejections,      \* promises of document-sync handlers that are about to reject
  conn,            \* a JsonRpcConnection, its streams and the futures it has returned
  backend          \* a real-backend adapter (adapters/go, adapters/typescript)

\* the dispatch tables of the three keyed channels and the subscriptions
bus == <<diagnosticListeners, workspaceListeners, notificationListeners, subscriptions>>

\* what lies between an adapter and its language server
wire == <<conn, backend>>

\* the client hub, but for the outcome of the latest call
client == <<disposed, languages, records, documents, errorListeners, handlerCalls,
            issuedOps, cleanupRuns, errorEvents, settled, docOps, disposing, bus,
            rejections>>

vars == <<client, result, wire>>

----------------------------------------------------------------------------
(* Bounds of the exploration *)

MaxRecords == 2
MaxDocOps == 3
MaxSubscriptions == 2
MaxRequests == 2
MaxFrames == 1

----------------------------------------------------------------------------
(* Small helpers *)

Min(a, b) == IF a < b THEN a ELSE b

Range(s) == {s[i] : i \in 1..Len(s)}

LF == "\n"

Put(f, k, v) == [x \in DOMAIN f \cup {k} |-> IF x = k THEN v ELSE f[x]]

Drop(f, k) == [x \in DOMAIN f \ {k} |-> f[x]]

EmptyMap == [x \in {} |-> 0]

----------------------------------------------------------------------------
(* utils/uri.ts *)

\* A raw uri is written [form, uri]: `uri` is the canonical text it denotes and
\* `form` how the caller spelled it: canonically, padded with blanks, as a bare
\* path, with a #fragment, or as the empty / blank string.
\* "empty" is the empty string, "blank" a string of blanks and "absent" a value
\* that is not a string (undefined).
UriForms == {"canonical", "padded", "path", "fragment", "empty", "blank", "absent"}

InvalidUri == "INVALID_URI"

\* trims, turns a bare path into a file: uri and drops the fragment; throws
\* INVALID_URI for what is not a non-blank string
normalizeUri(raw) ==
  IF raw.form \in {"empty", "blank", "absent"} THEN [err |-> InvalidUri, uri |-> ""]
  ELSE [err |-> "", uri |-> raw.uri]

\* "" stands for null
tryNormalizeUri(raw) ==
  IF raw.form \in {"absent", "empty"} THEN ""
  ELSE IF normalizeUri(raw).err # "" THEN ""
  ELSE normalizeUri(raw).uri

----------------------------------------------------------------------------
(* utils/textEdit.ts.  A text is a sequence of characters; LF separates     *)
(* lines.  A failing helper returns [err |-> code]; err = "" means success. *)

RECURSIVE SplitLines(_)
\* text.split('\n')
SplitLines(text) ==
  IF \A i \in 1..Len(text) : text[i] # LF THEN <<text>>
  ELSE LET k == CHOOSE i \in 1..Len(text) :
                  text[i] = LF /\ \A j \in 1..(i - 1) : text[j] # LF
       IN  <<SubSeq(text, 1, k - 1)>> \o SplitLines(SubSeq(text, k + 1, Len(text)))

RECURSIVE LineStart(_, _)
\* the loop of offsetAt: offset += lines[i].length + 1 for i < line
LineStart(lines, line) ==
  IF line = 0 THEN 0 ELSE LineStart(lines, line - 1) + Len(lines[line]) + 1

InvalidPosition == "INVALID_POSITION"

offsetAt(text, position) ==
  IF position.line < 0 \/ position.character < 0
  THEN [err |-> InvalidPosition, offset |-> 0]
  ELSE LET lines == SplitLines(text) IN
       IF position.line >= Len(lines)
       THEN [err |-> "", offset |-> Len(text)]
       ELSE [err |-> "",
             offset |-> LineStart(lines, position.line)
                        + Min(position.character, Len(lines[position.line + 1]))]

\* String.prototype.slice(from) and slice(0, to) on a text, offsets 0-based
SliceTo(text, to) == SubSeq(text, 1, Min(to, Len(text)))

SliceFrom(text, from) == SubSeq(text, from + 1, Len(text))

Position(line, character) == [line |-> line, character |-> character]

\* the value of `range` in a change or edit that has none
NoRange == [start |-> Position(0, 0), end |-> Position(0, 0)]

\* { text } : a change that replaces the whole text
FullTextChange(text) ==
  [hasText |-> TRUE, text |-> text, hasRange |-> FALSE, range |-> NoRange]

\* A DocumentChange is [hasText, text, hasRange, range]; a change without a
\* range replaces the whole text.
applyContentChange(text, change) ==
  IF ~change.hasText THEN [err |-> "INVALID_CHANGE", text |-> text]
  ELSE IF ~change.hasRange THEN [err |-> "", text |-> change.text]
  ELSE LET start == offsetAt(text, change.range.start)
           end   == offsetAt(text, change.range.end)
       IN  IF start.err # "" THEN [err |-> start.err, text |-> text]
           ELSE IF end.err # "" THEN [err |-> end.err, text |-> text]
           ELSE [err |-> "",
                 text |-> SliceTo(text, start.offset) \o change.text
                          \o SliceFrom(text, end.offset)]

RECURSIVE ApplyChangesToOriginal(_, _)
\* a loop that applies every change to the text the document had
ApplyChangesToOriginal(text, changes) ==
  IF changes = <<>> THEN [err |-> "", text |-> text]
  ELSE LET one == applyContentChange(text, Head(changes)) IN
       IF one.err # "" \/ Tail(changes) = <<>> THEN one
       ELSE ApplyChangesToOriginal(text, Tail(changes))

RECURSIVE ApplyChanges(_, _)
\* the loop of updateDocument: text = applyContentChange(text, change), in order
ApplyChanges(text, changes) ==
  IF changes = <<>> THEN [err |-> "", text |-> text]
  ELSE LET one == applyContentChange(text, Head(changes)) IN
       IF one.err # "" THEN one ELSE ApplyChanges(one.text, Tail(changes))

\* compareRangeReverse: negative when a sorts before b
compareRangeReverse(a, b) ==
  IF b.range.start.line - a.range.start.line # 0
  THEN b.range.start.line - a.range.start.line
  ELSE b.range.start.character - a.range.start.character

RECURSIVE InsertSorted(_, _)
\* stable insertion of e behind the elements that do not sort after it
InsertSorted(sorted, e) ==
  IF sorted = <<>> THEN <<e>>
  ELSE IF compareRangeReverse(e, Head(sorted)) < 0 THEN <<e>> \o sorted
  ELSE <<Head(sorted)>> \o InsertSorted(Tail(sorted), e)

RECURSIVE SortEdits(_)
\* [...edits].sort(compareRangeReverse): Array.prototype.sort is stable
SortEdits(edits) ==
  IF edits = <<>> THEN <<>>
  ELSE InsertSorted(SortEdits(SubSeq(edits, 1, Len(edits) - 1)), edits[Len(edits)])

RECURSIVE ApplySorted(_, _)
ApplySorted(text, sorted) ==
  IF sorted = <<>> THEN [err |-> "", text |-> text]
  ELSE LET edit  == Head(sorted)
           start == offsetAt(text, edit.range.start)
           end   == offsetAt(text, edit.range.end)
       IN  IF start.err # "" THEN [err |-> start.err, text |-> text]
           ELSE IF end.err # "" THEN [err |-> end.err, text |-> text]
           ELSE ApplySorted(SliceTo(text, start.offset) \o edit.newText
                              \o SliceFrom(text, end.offset),
                            Tail(sorted))

\* A TextEdit is [range, newText]; validateTextEdit's checks are met by
\* construction in applyWorkspaceEdit, which supplies a range and a string.
applyTextEdits(text, edits) == ApplySorted(text, SortEdits(edits))

----------------------------------------------------------------------------
(* Adapters and adapter records *)

DocSyncOps == {"openDocument", "updateDocument", "closeDocument"}

FeatureOps == {"getCompletions", "getHover", "getDefinition", "findReferences",
               "getCodeActions", "getDocumentHighlights", "getDocumentSymbols",
               "renameSymbol", "formatDocument", "formatRange"}

HANDLER_METHODS ==
  {"initialize", "shutdown"} \cup DocSyncOps \cup FeatureOps
    \cup {"sendRequest", "sendNotification"}

\* What a rejected or thrown value can be: an Error object, or a falsy value
\* such as undefined (Promise.reject() / throw undefined).
FalsyValues == {"undefined"}

ErrorValues == {"Error"} \cup FalsyValues

\* The adapters the host registers.  init: "none" (no initialize), "sync"
\* (returns a plain value), "throw" (throws synchronously), "async" (returns a
\* promise).  registers: the disposables initialize registers through its
\* context.  hasDispose: adapter.dispose is a function.  cleanup: "sync" when
\* the cleanup routines (disposables, shutdown, dispose) return plain values,
\* "async" when they return promises that resolve, "throw" when they throw,
\* "reject" when they return promises that reject.  fails: what the document-sync and
\* feature handlers do, "none" (return), "throw" (throw) or "reject" (return a
\* promise that rejects).
AdapterShapes ==
  { [handlers |-> HANDLER_METHODS \ {"initialize"}, init |-> "none",
     registers |-> 0, hasDispose |-> TRUE, cleanup |-> "sync", fails |-> "none"],
    [handlers |-> {"openDocument", "updateDocument", "getHover"}, init |-> "sync",
     registers |-> 1, hasDispose |-> FALSE, cleanup |-> "sync", fails |-> "none"],
    [handlers |-> HANDLER_METHODS \ {"initialize"}, init |-> "throw",
     registers |-> 1, hasDispose |-> TRUE, cleanup |-> "sync", fails |-> "none"],
    [handlers |-> HANDLER_METHODS \ {"initialize"}, init |-> "async",
     registers |-> 1, hasDispose |-> TRUE, cleanup |-> "sync", fails |-> "none"] }

NewRecord(languageId, adapter) ==
  [languageId |-> languageId, handlers |-> adapter.handlers,
   hasDispose |-> adapter.hasDispose, cleanup |-> adapter.cleanup,
   fails |-> adapter.fails, hasContext |-> adapter.init # "none",
   state |-> "registering",
   disposables |-> 0, operationQueue |-> <<>>, promise |-> "none"]

NoRuns == [disposable |-> 0, shutdown |-> 0, dispose |-> 0]

\* The mutable client state the private helpers below read and write.
World ==
  [records |-> records, handlerCalls |-> handlerCalls, issuedOps |-> issuedOps,
   cleanupRuns |-> cleanupRuns, errorEvents |-> errorEvents, rejections |-> rejections]

RECURSIVE EmitToListeners(_, _, _)
EmitToListeners(events, listeners, event) ==
  IF listeners = <<>> THEN events
  ELSE EmitToListeners(Append(events, [event EXCEPT !.listener = Head(listeners)]),
                       Tail(listeners), event)

emitAdapterError(w, operation, languageId, error) ==
  IF Len(errorListeners) = 0 THEN w
  ELSE [w EXCEPT !.errorEvents =
          EmitToListeners(@, errorListeners,
                          [listener |-> 0, languageId |-> languageId,
                           operation |-> operation, error |-> error])]

handleAdapterError(w, operation, languageId, error) ==
  emitAdapterError(w, operation, languageId, error)

\* what a failing document-sync handler throws or rejects with
HandlerError == "handler failed"

\* lines 741-748, the handler having been called: a throw is reported at
\* once, a rejection when the promise rejects
HandlerReturned(w, r, operation) ==
  CASE w.records[r].fails = "throw" ->
         handleAdapterError(w, operation, w.records[r].languageId, HandlerError)
    [] w.records[r].fails = "reject" ->
         [w EXCEPT !.rejections = Append(@, [rec |-> r, operation |-> operation,
                                             error |-> HandlerError])]
    [] OTHER -> w

\* an invokeHandler that swallows what the adapter's handler throws or rejects
\* with
invokeHandlerSilent(w, r, operation, payload) ==
  IF operation \notin w.records[r].handlers THEN w
  ELSE [w EXCEPT !.handlerCalls[r] = Append(@, [operation |-> operation,
                                                payload |-> payload])]

invokeHandler(w, r, operation, payload) ==
  IF operation \notin w.records[r].handlers THEN w
  ELSE HandlerReturned(
         [w EXCEPT !.handlerCalls[r] = Append(@, [operation |-> operation,
                                                  payload |-> payload])],
         r, operation)

\* r = 0 stands for `record` being undefined
callAdapterHandler(w, r, operation, payload) ==
  IF r = 0 THEN w
  ELSE IF operation \notin w.records[r].handlers THEN w
  ELSE IF w.records[r].state \in {"registering", "initializing"}
  THEN [w EXCEPT !.records[r].operationQueue =
                   Append(@, [operation |-> operation, payload |-> payload])]
  ELSE IF w.records[r].state # "ready" THEN w
  ELSE invokeHandler(w, r, operation, payload)

\* Notes that the host's document call `operation` goes to a handler of
\* record r.
Issue(w, r, operation, payload) ==
  IF r = 0 \/ operation \notin w.records[r].handlers THEN w
  ELSE [w EXCEPT !.issuedOps[r] = Append(@, [operation |-> operation, payload |-> payload])]

\* the document call of the host and what it makes of it
HostSync(w, r, operation, payload) ==
  callAdapterHandler(Issue(w, r, operation, payload), r, operation, payload)

RECURSIVE ReportQueue(_, _, _, _)
ReportQueue(w, queue, languageId, error) ==
  IF queue = <<>> THEN w
  ELSE ReportQueue(handleAdapterError(w, Head(queue).operation, languageId, error),
                   Tail(queue), languageId, error)

RECURSIVE InvokeQueue(_, _, _)
InvokeQueue(w, r, queue) ==
  IF queue = <<>> THEN w
  ELSE InvokeQueue(invokeHandler(w, r, Head(queue).operation, Head(queue).payload),
                   r, Tail(queue))

RECURSIVE Reverse(_)
Reverse(q) == IF q = <<>> THEN <<>> ELSE Append(Reverse(Tail(q)), Head(q))

\* a flush that drains the queue from its end
flushQueuedOperationsLifo(w, r, error) ==
  LET queue == w.records[r].operationQueue IN
  IF Len(queue) = 0 THEN w
  ELSE LET w1 == [w EXCEPT !.records[r].operationQueue = <<>>] IN
       IF error \notin FalsyValues
       THEN ReportQueue(w1, Reverse(queue), w.records[r].languageId, error)
       ELSE InvokeQueue(w1, r, Reverse(queue))

\* error = "undefined" when the caller passes no error
flushQueuedOperations(w, r, error) ==
  LET queue == w.records[r].operationQueue IN
  IF Len(queue) = 0 THEN w
  ELSE LET w1 == [w EXCEPT !.records[r].operationQueue = <<>>] IN
       IF error \notin FalsyValues
       THEN ReportQueue(w1, queue, w.records[r].languageId, error)
       ELSE InvokeQueue(w1, r, queue)

\* what a failing cleanup routine throws or rejects with
CleanupError == "cleanup failed"

\* The labels of the routines runRecordDisposables schedules for `rec`, in
\* the order it schedules them: the registered disposables, the shutdown
\* handler, the adapter's dispose.
CleanupLabels(rec) ==
  [i \in 1..rec.disposables |-> "dispose"]
    \o (IF "shutdown" \in rec.handlers THEN <<"shutdown">> ELSE <<>>)
    \o (IF rec.hasDispose THEN <<"dispose">> ELSE <<>>)

\* runRecordDisposables(record, false) throws: the first routine it schedules
\* throws and line 806 throws it on
CleanupThrows(rec) == rec.cleanup = "throw" /\ CleanupLabels(rec) # <<>>

\* every scheduled routine has run and the disposables are cleared
AllCleanupRun(w, r) ==
  [w EXCEPT !.records[r].operationQueue = <<>>,
            !.records[r].disposables = 0,
            !.cleanupRuns[r] =
              [disposable |-> @.disposable + w.records[r].disposables,
               shutdown   |-> @.shutdown
                                + (IF "shutdown" \in w.records[r].handlers THEN 1 ELSE 0),
               dispose    |-> @.dispose + (IF w.records[r].hasDispose THEN 1 ELSE 0)]]

\* the first scheduled routine has run and thrown: the loop over the
\* disposables, or the schedule calls after it, are left at that point
FirstCleanupRun(w, r) ==
  [w EXCEPT !.records[r].operationQueue = <<>>,
            !.cleanupRuns[r] =
              IF w.records[r].disposables > 0 THEN [@ EXCEPT !.disposable = @ + 1]
              ELSE IF "shutdown" \in w.records[r].handlers THEN [@ EXCEPT !.shutdown = @ + 1]
              ELSE [@ EXCEPT !.dispose = @ + 1]]

RECURSIVE ReportCleanup(_, _, _)
\* handleAdapterError(label, record.languageId, error) for each of `labels`
ReportCleanup(w, labels, languageId) ==
  IF labels = <<>> THEN w
  ELSE ReportCleanup(handleAdapterError(w, Head(labels), languageId, CleanupError),
                     Tail(labels), languageId)

\* the promises the routines of `labels` have returned will reject
RejectCleanup(w, r, labels) ==
  [w EXCEPT !.rejections =
     @ \o [i \in 1..Len(labels) |->
             [rec |-> r, operation |-> labels[i], error |-> CleanupError]]]

\* Each run of a cleanup routine is counted.  With suppressErrors a routine
\* that throws is reported at once and one whose promise rejects when it
\* rejects; without, a throw leaves the function (see CleanupThrows) and the
\* first rejection is thrown from the promise it returns, which the caller
\* reports as `unregisterLanguage`.
runRecordDisposables(w, r, suppressErrors) ==
  CASE w.records[r].cleanup = "throw" /\ suppressErrors ->
         ReportCleanup(AllCleanupRun(w, r), CleanupLabels(w.records[r]),
                       w.records[r].languageId)
    [] w.records[r].cleanup = "throw" /\ ~suppressErrors ->
         IF CleanupLabels(w.records[r]) = <<>> THEN AllCleanupRun(w, r)
         ELSE FirstCleanupRun(w, r)
    [] w.records[r].cleanup = "reject" /\ suppressErrors ->
         RejectCleanup(AllCleanupRun(w, r), r, CleanupLabels(w.records[r]))
    [] w.records[r].cleanup = "reject" /\ ~suppressErrors ->
         IF CleanupLabels(w.records[r]) = <<>> THEN AllCleanupRun(w, r)
         ELSE RejectCleanup(AllCleanupRun(w, r), r, <<"unregisterLanguage">>)
    [] OTHER -> AllCleanupRun(w, r)

----------------------------------------------------------------------------
(* Router: resolveLanguageFromParams, assertLanguageReady, forward,         *)
(* sendRequest, sendNotification                                            *)

\* a slot of the params that holds no string
Absent == "<absent>"

AbsentUri == [form |-> "absent", uri |-> ""]

\* Host-call params are [isObject, languageIds, uris]: languageIds lists
\* params.languageId, params.language, params.textDocument.languageId and
\* params.document.languageId; uris lists params.uri, params.textDocument.uri,
\* params.document.uri and params.left.textDocument.uri.
RECURSIVE FirstString(_)
FirstString(slots) ==
  IF slots = <<>> THEN Absent
  ELSE IF Head(slots) # Absent THEN Head(slots)
  ELSE FirstString(Tail(slots))

\* a lookup that lets the last candidate win
extractLanguageIdLast(data) == FirstString(Reverse(data.languageIds))

extractLanguageId(data) == FirstString(data.languageIds)

RECURSIVE FirstNormalized(_)
FirstNormalized(candidates) ==
  IF candidates = <<>> THEN ""
  ELSE IF tryNormalizeUri(Head(candidates)) # "" THEN tryNormalizeUri(Head(candidates))
  ELSE FirstNormalized(Tail(candidates))

extractUri(data) == FirstNormalized(data.uris)

\* a fallback that takes an adapter whenever there is one
IsSoleLax(langs) == Cardinality(DOMAIN langs) >= 1

\* this.languages.size === 1
IsSole(langs) == Cardinality(DOMAIN langs) = 1

\* this.languages.values().next().value when this.languages.size = 1
SoleRecord(langs) == langs[CHOOSE l \in DOMAIN langs : TRUE]

\* returns [err, rec]; langs and docs are this.languages and this.documents
resolveLanguageFromParams(langs, docs, params) ==
  IF ~params.isObject
  THEN IF IsSole(langs) THEN [err |-> "", rec |-> SoleRecord(langs)]
       ELSE [err |-> "LANGUAGE_NOT_RESOLVED", rec |-> 0]
  ELSE LET byLanguageId == extractLanguageId(params)
           byUri == extractUri(params)
       IN  IF byLanguageId # Absent /\ byLanguageId # ""
           THEN IF byLanguageId \notin DOMAIN langs
                THEN [err |-> "UNKNOWN_LANGUAGE", rec |-> 0]
                ELSE [err |-> "", rec |-> langs[byLanguageId]]
           ELSE IF byUri # ""
           THEN IF byUri \notin DOMAIN docs
                THEN [err |-> "DOCUMENT_NOT_OPEN", rec |-> 0]
                ELSE IF docs[byUri].languageId \notin DOMAIN langs
                THEN [err |-> "UNKNOWN_LANGUAGE", rec |-> 0]
                ELSE [err |-> "", rec |-> langs[docs[byUri].languageId]]
           ELSE IF IsSole(langs)
           THEN [err |-> "", rec |-> SoleRecord(langs)]
           ELSE [err |-> "LANGUAGE_NOT_RESOLVED", rec |-> 0]

\* a gate that also lets an initializing record through
assertLanguageReadyLax(state) ==
  IF state \in {"ready", "initializing"} THEN ""
  ELSE IF state = "failed" THEN "LANGUAGE_FAILED"
  ELSE IF state = "disposed" THEN "UNKNOWN_LANGUAGE"
  ELSE "LANGUAGE_NOT_READY"

\* the error assertLanguageReady throws for a record in `state`; "" for none
assertLanguageReady(state) ==
  IF state = "ready" THEN ""
  ELSE IF state = "failed" THEN "LANGUAGE_FAILED"
  ELSE IF state = "disposed" THEN "UNKNOWN_LANGUAGE"
  ELSE "LANGUAGE_NOT_READY"

\* what the call of a handler gives its caller
HandlerOutcome(fails) ==
  CASE fails = "throw" -> "threw"
    [] fails = "reject" -> "rejected"
    [] OTHER -> "returned"

\* What a routed call does in a client whose fields are isDisposed, langs, recs
\* and docs: lines 854-863 for a feature request, 363-385 for sendRequest and
\* sendNotification.  `invoked` tells whether the adapter's handler was called,
\* `outcome` what the host gets from `return handler(...)`: the handler's value
\* ("returned"), what it threw ("threw"), or its rejecting promise ("rejected").
RoutedOutcome(isDisposed, langs, recs, docs, op, handlerName, params) ==
  LET base == [op |-> op, handler |-> handlerName, params |-> params,
               registered |-> DOMAIN langs, code |-> "", rec |-> 0,
               state |-> "", invoked |-> FALSE, outcome |-> ""]
      resolved == resolveLanguageFromParams(langs, docs, params)
  IN  IF isDisposed THEN [base EXCEPT !.code = "CLIENT_DISPOSED"]
      ELSE IF resolved.err # "" THEN [base EXCEPT !.code = resolved.err]
      ELSE LET rec == recs[resolved.rec]
               gate == assertLanguageReady(rec.state)
               at == [base EXCEPT !.rec = resolved.rec, !.state = rec.state]
           IN  IF gate # "" THEN [at EXCEPT !.code = gate]
               ELSE IF handlerName \notin rec.handlers
               THEN [at EXCEPT !.code = "FEATURE_UNSUPPORTED"]
               ELSE [at EXCEPT !.invoked = TRUE, !.outcome = HandlerOutcome(rec.fails)]

\* no call
NoCall == [handler |-> "", params |-> [isObject |-> FALSE, languageIds |-> <<>>, uris |-> <<>>]]

----------------------------------------------------------------------------
(* Registry: registerLanguage, the settling of initialize, unregisterLanguage, *)
(* dispose                                                                  *)

\* an assertNotDisposed that lets the host in while dispose awaits its cleanup
assertNotDisposedLate ==
  IF disposed /\ ~disposing THEN "CLIENT_DISPOSED" ELSE ""

\* the code of the error it throws, "" when it returns
assertNotDisposed == IF disposed THEN "CLIENT_DISPOSED" ELSE ""

Commit(w) ==
  /\ records' = w.records
  /\ handlerCalls' = w.handlerCalls
  /\ issuedOps' = w.issuedOps
  /\ cleanupRuns' = w.cleanupRuns
  /\ errorEvents' = w.errorEvents
  /\ rejections' = w.rejections

Outcome(op, code) == [op |-> op, code |-> code]

Throw(op, code) ==
  /\ result' = Outcome(op, code)
  /\ UNCHANGED <<disposed, disposing, wire, bus, languages, records, documents, errorListeners,
                 handlerCalls, issuedOps, cleanupRuns, errorEvents, rejections, settled>>

\* The record registerLanguage has built when initialize (if any) has returned
\* or thrown: lines 142-169 and 193-195.
RegisteredRecord(languageId, adapter) ==
  LET fresh == NewRecord(languageId, adapter) IN
  CASE adapter.init = "none"  -> [fresh EXCEPT !.state = "ready"]
    [] adapter.init = "sync"  -> [fresh EXCEPT !.state = "ready",
                                               !.disposables = adapter.registers]
    [] adapter.init = "throw" -> [fresh EXCEPT !.state = "initializing",
                                               !.disposables = adapter.registers]
    [] adapter.init = "async" -> [fresh EXCEPT !.state = "initializing",
                                               !.disposables = adapter.registers,
                                               !.promise = "pending"]

registerLanguage(languageId, adapter) ==
  /\ Len(records) < MaxRecords
  /\ docOps' = docOps
  /\ IF assertNotDisposed # "" THEN Throw("registerLanguage", assertNotDisposed)
     ELSE IF languageId = "" THEN Throw("registerLanguage", "INVALID_ADAPTER")
     ELSE IF languageId \in DOMAIN languages THEN Throw("registerLanguage", "LANGUAGE_EXISTS")
     ELSE LET r == Len(records) + 1 IN
          /\ records' = Append(records, RegisteredRecord(languageId, adapter))
          /\ languages' = Put(languages, languageId, r)
          /\ handlerCalls' = Append(handlerCalls, <<>>)
          /\ issuedOps' = Append(issuedOps, <<>>)
          /\ cleanupRuns' = Append(cleanupRuns, NoRuns)
          /\ settled' = Append(settled, CASE adapter.init = "throw" -> "threw"
                                          [] adapter.init = "async" -> "pending"
                                          [] OTHER -> "returned")
          /\ result' = [op |-> "registerLanguage",
                        code |-> IF adapter.init = "throw" THEN "THROWN" ELSE "",
                        rec |-> r]
          /\ UNCHANGED <<disposed, disposing, wire, bus, documents, errorListeners, errorEvents,
                         rejections>>

\* the .then branch of registerLanguage, lines 172-178
InitializeResolved(r) ==
  /\ records[r].promise = "pending"
  /\ LET w1 == [World EXCEPT !.records[r].state = "ready",
                             !.records[r].promise = "settled"]
     IN  Commit(flushQueuedOperations(w1, r, "undefined"))
  /\ settled' = [settled EXCEPT ![r] = "returned"]
  /\ result' = [op |-> "initializeResolved", code |-> "", rec |-> r]
  /\ UNCHANGED <<disposed, disposing, wire, bus, languages, documents, errorListeners, docOps>>

\* the .catch branch of registerLanguage, lines 179-190.  While the flush
\* reports the queued operations the record is `failed` and still registered;
\* `reentry` is a feature request an error listener makes at that moment
\* (NoCall for none).
InitializeRejected(r, error, reentry) ==
  /\ records[r].promise = "pending"
  /\ LET languageId == records[r].languageId
         w1 == [World EXCEPT !.records[r].state = "failed",
                             !.records[r].promise = "settled"]
         w2 == flushQueuedOperations(w1, r, error)
         w3 == emitAdapterError(w2, "initialize", languageId, error)
         listenerRuns == /\ Len(errorListeners) > 0
                         /\ Len(records[r].operationQueue) > 0
                         /\ error \notin FalsyValues
     IN  /\ Commit(runRecordDisposables(w3, r, TRUE))
         /\ IF reentry = NoCall
            THEN result' = [op |-> "initializeRejected", code |-> "", rec |-> r]
            ELSE /\ listenerRuns
                 /\ result' = RoutedOutcome(assertNotDisposed # "", languages, w1.records, documents,
                                            "forward", reentry.handler, reentry.params)
  /\ languages' = Drop(languages, records[r].languageId)
  /\ settled' = [settled EXCEPT ![r] = "threw"]
  /\ UNCHANGED <<disposed, disposing, wire, bus, documents, errorListeners, docOps>>

unregisterLanguage(languageId) ==
  /\ docOps' = docOps
  /\ IF assertNotDisposed # "" THEN Throw("unregisterLanguage", assertNotDisposed)
     ELSE IF languageId \notin DOMAIN languages
     THEN /\ result' = [op |-> "unregisterLanguage", code |-> "", value |-> FALSE]
          /\ UNCHANGED <<disposed, disposing, wire, bus, languages, records, documents, errorListeners,
                         handlerCalls, issuedOps, cleanupRuns, errorEvents, rejections, settled>>
     ELSE LET r == languages[languageId]
              w1 == [World EXCEPT !.records[r].state = "disposed"]
          IN  /\ Commit(runRecordDisposables(w1, r, FALSE))
              /\ languages' = Drop(languages, languageId)
              /\ result' = IF CleanupThrows(records[r])
                           THEN Outcome("unregisterLanguage", CleanupError)
                           ELSE [op |-> "unregisterLanguage", code |-> "", value |-> TRUE]
              /\ UNCHANGED <<disposed, disposing, wire, bus, documents, errorListeners, settled>>

\* the languageIds of the registry stand for the entries listLanguages returns
listLanguages ==
  /\ result' = IF assertNotDisposed # "" THEN Outcome("listLanguages", assertNotDisposed)
               ELSE [op |-> "listLanguages", code |-> "", value |-> DOMAIN languages]
  /\ UNCHANGED <<disposed, disposing, wire, bus, languages, records, documents, errorListeners,
                 handlerCalls, issuedOps, cleanupRuns, errorEvents, rejections, settled,
                 docOps>>

RECURSIVE DisposeRecords(_, _)
\* the loop of dispose over this.languages.values()
DisposeRecords(w, rs) ==
  IF rs = {} THEN w
  ELSE LET r == CHOOSE x \in rs : \A y \in rs : x <= y
           w1 == [w EXCEPT !.records[r].state = "disposed"]
       IN  DisposeRecords(runRecordDisposables(w1, r, TRUE), rs \ {r})

\* runRecordDisposables(record, ...) returns a promise: some cleanup routine
\* of the record ran and returned one
CleanupIsThenable(r) ==
  /\ records[r].cleanup \in {"async", "reject"}
  /\ \/ records[r].disposables > 0
     \/ "shutdown" \in records[r].handlers
     \/ records[r].hasDispose

\* a finalizeDispose that leaves the listener tables as they are
finalizeDisposeKeepsListeners ==
  /\ languages' = EmptyMap
  /\ documents' = EmptyMap
  /\ UNCHANGED <<diagnosticListeners, workspaceListeners, notificationListeners,
                 errorListeners>>

\* lines 687-695, disposed being set already
finalizeDispose ==
  /\ languages' = EmptyMap
  /\ documents' = EmptyMap
  /\ diagnosticListeners' = EmptyMap
  /\ workspaceListeners' = EmptyMap
  /\ notificationListeners' = EmptyMap
  /\ errorListeners' = <<>>

\* dispose up to its await (line 680), and past it when there is nothing to
\* wait for; a call on a disposed client returns at line 652
dispose ==
  /\ result' = Outcome("dispose", "")
  /\ IF disposed
     THEN UNCHANGED <<disposed, disposing, wire, bus, languages, records, documents,
                      errorListeners, handlerCalls, issuedOps, cleanupRuns, errorEvents,
                      rejections, settled, docOps>>
     ELSE /\ disposed' = TRUE
          /\ Commit(DisposeRecords(World, {languages[l] : l \in DOMAIN languages}))
          /\ IF \E l \in DOMAIN languages : CleanupIsThenable(languages[l])
             THEN /\ disposing' = TRUE
                  /\ UNCHANGED <<languages, documents, diagnosticListeners,
                                 workspaceListeners, notificationListeners, errorListeners>>
             ELSE /\ disposing' = FALSE
                  /\ finalizeDispose
          /\ UNCHANGED <<subscriptions, settled, docOps, wire>>

\* the cleanup tasks dispose waits for have settled, the rejections of the
\* cleanup routines among them: lines 680-684
DisposeSettled ==
  /\ disposing
  /\ \A i \in 1..Len(rejections) : rejections[i].operation \notin {"dispose", "shutdown"}
  /\ disposing' = FALSE
  /\ finalizeDispose
  /\ result' = Outcome("disposeSettled", "")
  /\ UNCHANGED <<disposed, records, handlerCalls, issuedOps, cleanupRuns, errorEvents,
                 rejections, settled, docOps, subscriptions, wire>>

\* the .catch of invokeHandler (line 744), of unregisterLanguage (lines
\* 212-214) or of runRecordDisposables (lines 796-798) for the oldest
\* rejecting promise
HandlerRejected ==
  /\ rejections # <<>>
  /\ Commit(handleAdapterError([World EXCEPT !.rejections = Tail(@)],
                               Head(rejections).operation,
                               records[Head(rejections).rec].languageId,
                               Head(rejections).error))
  /\ result' = [op |-> "handlerRejected", code |-> "", rec |-> Head(rejections).rec]
  /\ UNCHANGED <<disposed, disposing, wire, bus, languages, documents, errorListeners, settled,
                 docOps>>

----------------------------------------------------------------------------
(* Event bus: onNotification, onDiagnostics, onWorkspaceEvent, onError, the *)
(* Subscription they return, and what an adapter publishes through its      *)
(* context.  A listener is a number; a listener table maps a key to its Set *)
(* of listeners, written as the sequence of its members in insertion order. *)

\* the listeners that throw when they are invoked
ThrowingListeners == {2}

\* Set.prototype.add
SetAdd(listeners, listener) ==
  IF listener \in Range(listeners) THEN listeners ELSE Append(listeners, listener)

\* Set.prototype.delete
SetDelete(listeners, listener) == SelectSeq(listeners, LAMBDA l : l # listener)

\* getOrCreateSet(map, key).add(listener)
AddListener(table, key, listener) ==
  Put(table, key, IF key \in DOMAIN table THEN SetAdd(table[key], listener)
                  ELSE <<listener>>)

\* listeners.delete(listener) on the Set the subscription was made for, which
\* finalizeDispose may have taken out of the table
DeleteListener(table, key, listener) ==
  IF key \in DOMAIN table THEN [table EXCEPT ![key] = SetDelete(@, listener)]
  ELSE table

\* new Subscription(...): closed = false
Subscribed(channel, key, listener) ==
  /\ subscriptions' = Append(subscriptions, [channel |-> channel, key |-> key,
                                             listener |-> listener, closed |-> FALSE])
  /\ result' = Outcome(channel, "")
  /\ UNCHANGED <<disposed, disposing, wire, languages, records, documents, handlerCalls,
                 issuedOps, cleanupRuns, errorEvents, rejections, settled, docOps>>

onNotification(method, listener) ==
  /\ Len(subscriptions) < MaxSubscriptions
  /\ docOps' = docOps
  /\ IF assertNotDisposed # "" THEN Throw("onNotification", assertNotDisposed)
     ELSE IF method = "" THEN Throw("onNotification", "INVALID_NOTIFICATION")
     ELSE /\ notificationListeners' = AddListener(notificationListeners, method, listener)
          /\ Subscribed("onNotification", method, listener)
          /\ UNCHANGED <<diagnosticListeners, workspaceListeners, errorListeners>>

onDiagnostics(raw, listener) ==
  /\ Len(subscriptions) < MaxSubscriptions
  /\ docOps' = docOps
  /\ IF assertNotDisposed # "" THEN Throw("onDiagnostics", assertNotDisposed)
     ELSE IF normalizeUri(raw).err # "" THEN Throw("onDiagnostics", normalizeUri(raw).err)
     ELSE /\ diagnosticListeners' =
               AddListener(diagnosticListeners, normalizeUri(raw).uri, listener)
          /\ Subscribed("onDiagnostics", normalizeUri(raw).uri, listener)
          /\ UNCHANGED <<workspaceListeners, notificationListeners, errorListeners>>

onWorkspaceEvent(kind, listener) ==
  /\ Len(subscriptions) < MaxSubscriptions
  /\ docOps' = docOps
  /\ IF assertNotDisposed # "" THEN Throw("onWorkspaceEvent", assertNotDisposed)
     ELSE IF kind = "" THEN Throw("onWorkspaceEvent", "INVALID_EVENT_KIND")
     ELSE /\ workspaceListeners' = AddListener(workspaceListeners, kind, listener)
          /\ Subscribed("onWorkspaceEvent", kind, listener)
          /\ UNCHANGED <<diagnosticListeners, notificationListeners, errorListeners>>

onError(listener) ==
  /\ Len(subscriptions) < MaxSubscriptions
  /\ docOps' = docOps
  /\ IF assertNotDisposed # "" THEN Throw("onError", assertNotDisposed)
     ELSE /\ errorListeners' = SetAdd(errorListeners, listener)
          /\ Subscribed("onError", "", listener)
          /\ UNCHANGED <<diagnosticListeners, workspaceListeners, notificationListeners>>

\* Subscription.unsubscribe of the s-th subscription
unsubscribe(s) ==
  /\ result' = Outcome("unsubscribe", "")
  /\ subscriptions' = [subscriptions EXCEPT ![s].closed = TRUE]
  /\ diagnosticListeners' =
       IF ~subscriptions[s].closed /\ subscriptions[s].channel = "onDiagnostics"
       THEN DeleteListener(diagnosticListeners, subscriptions[s].key,
                           subscriptions[s].listener)
       ELSE diagnosticListeners
  /\ workspaceListeners' =
       IF ~subscriptions[s].closed /\ subscriptions[s].channel = "onWorkspaceEvent"
       THEN DeleteListener(workspaceListeners, subscriptions[s].key,
                           subscriptions[s].listener)
       ELSE workspaceListeners
  /\ notificationListeners' =
       IF ~subscriptions[s].closed /\ subscriptions[s].channel = "onNotification"
       THEN DeleteListener(notificationListeners, subscriptions[s].key,
                           subscriptions[s].listener)
       ELSE notificationListeners
  /\ errorListeners' =
       IF ~subscriptions[s].closed /\ subscriptions[s].channel = "onError"
       THEN SetDelete(errorListeners, subscriptions[s].listener)
       ELSE errorListeners
  /\ UNCHANGED <<disposed, disposing, wire, languages, records, documents, handlerCalls,
                 issuedOps, cleanupRuns, errorEvents, rejections, settled, docOps>>

\* the listeners of `table` under key
ListenersAt(table, key) == IF key \in DOMAIN table THEN table[key] ELSE <<>>

\* The loop `for (const listener of Array.from(listeners)) listener(...)`:
\* the listeners it invokes, the last of them being the one that threw if one
\* did.
Invoked(listeners) ==
  IF \A i \in 1..Len(listeners) : listeners[i] \notin ThrowingListeners THEN listeners
  ELSE SubSeq(listeners, 1,
              CHOOSE i \in 1..Len(listeners) :
                /\ listeners[i] \in ThrowingListeners
                /\ \A j \in 1..(i - 1) : listeners[j] \notin ThrowingListeners)

\* what the loop lets out to its caller
FanOutCode(listeners) ==
  IF \E i \in 1..Len(listeners) : listeners[i] \in ThrowingListeners
  THEN "LISTENER_THREW" ELSE ""

\* A publication of record r under key: the listeners invoked, the languageId
\* they were given, and as code what came back to the publishing adapter.
Published(op, r, key, code, invoked) ==
  /\ result' = [op |-> op, code |-> code, rec |-> r, key |-> key,
                languageId |-> records[r].languageId, invoked |-> invoked]
  /\ UNCHANGED <<disposed, disposing, wire, bus, languages, records, documents, errorListeners,
                 handlerCalls, issuedOps, cleanupRuns, errorEvents, rejections, settled,
                 docOps>>

\* context.publishDiagnostics(uri, ...) of record r: emitDiagnostics
publishDiagnostics(r, raw) ==
  /\ records[r].hasContext
  /\ IF normalizeUri(raw).err # ""
     THEN Published("publishDiagnostics", r, "", normalizeUri(raw).err, <<>>)
     ELSE Published("publishDiagnostics", r, normalizeUri(raw).uri,
                    FanOutCode(ListenersAt(diagnosticListeners, normalizeUri(raw).uri)),
                    Invoked(ListenersAt(diagnosticListeners, normalizeUri(raw).uri)))

\* context.emitWorkspaceEvent(kind, ...) of record r: emitWorkspace
emitWorkspaceEvent(r, kind) ==
  /\ records[r].hasContext
  /\ IF kind = ""
     THEN Published("emitWorkspaceEvent", r, "", "INVALID_EVENT_KIND", <<>>)
     ELSE Published("emitWorkspaceEvent", r, kind,
                    FanOutCode(ListenersAt(workspaceListeners, kind)),
                    Invoked(ListenersAt(workspaceListeners, kind)))

\* context.notifyClient(method, ...) of record r
notifyClient(r, method) ==
  /\ records[r].hasContext
  /\ Published("notifyClient", r, method,
               FanOutCode(ListenersAt(notificationListeners, method)),
               Invoked(ListenersAt(notificationListeners, method)))

\* what a listener returns when it is invoked: listeners 3 and 4 answer a
\* server request, the others return nothing
Reply(listener) ==
  CASE listener = 3 -> "three"
    [] listener = 4 -> "four"
    [] OTHER -> "undefined"

\* the server requests handleServerRequest answers itself with null
NullRequests ==
  {"client/registerCapability", "client/unregisterCapability",
   "workspace/didChangeWorkspaceFolders"}

RECURSIVE ServerRequestLoop(_, _)
\* the loop of the default case, lines 635-644: `response` after the listeners
ServerRequestLoop(response, listeners) ==
  IF listeners = <<>> THEN response
  ELSE ServerRequestLoop(
         IF Head(listeners) \in ThrowingListeners THEN response
         ELSE IF Reply(Head(listeners)) # "undefined" THEN Reply(Head(listeners))
         ELSE response,
         Tail(listeners))

\* The value handleServerRequest resolves with, for the methods in
\* NullRequests and for those of the default case.
ServerRequestResponse(method) ==
  IF method \in NullRequests THEN "null"
  ELSE IF ListenersAt(notificationListeners, method) = <<>> THEN "null"
  ELSE ServerRequestLoop("null", ListenersAt(notificationListeners, method))

\* context.handleServerRequest(method, ...) of record r
handleServerRequest(r, method) ==
  /\ records[r].hasContext
  /\ result' = [op |-> "handleServerRequest", code |-> "", rec |-> r, key |-> method,
                value |-> ServerRequestResponse(method)]
  /\ UNCHANGED <<disposed, disposing, wire, bus, languages, records, documents, errorListeners,
                 handlerCalls, issuedOps, cleanupRuns, errorEvents, rejections, settled,
                 docOps>>

\* A document as a caller holds it: `defined` is FALSE for null/undefined,
\* `live` tells whether the object is the one the store holds, so that writing
\* to it writes to the store.
NullDocument ==
  [defined |-> FALSE, live |-> FALSE, uri |-> "", languageId |-> "", text |-> <<>>,
   version |-> 0]

\* this.documents.get(uri)
StoreObject(uri) ==
  IF uri \notin DOMAIN documents THEN NullDocument
  ELSE [defined |-> TRUE, live |-> TRUE, uri |-> documents[uri].uri,
        languageId |-> documents[uri].languageId, text |-> documents[uri].text,
        version |-> documents[uri].version]

\* a cloneDocument that hands out the object it was given
cloneDocumentShared(doc) == IF ~doc.defined THEN NullDocument ELSE doc

\* utils/clone: a new object with the fields of doc
cloneDocument(doc) ==
  IF ~doc.defined THEN NullDocument ELSE [doc EXCEPT !.live = FALSE]

\* context.getDocument(uri) of record r: resolveDocument
getDocument(r, raw) ==
  /\ records[r].hasContext
  /\ result' = [op |-> "getDocument", code |-> "", rec |-> r,
                value |-> IF tryNormalizeUri(raw) = "" THEN NullDocument
                          ELSE cloneDocument(StoreObject(tryNormalizeUri(raw)))]
  /\ UNCHANGED <<disposed, disposing, wire, bus, languages, records, documents, errorListeners,
                 handlerCalls, issuedOps, cleanupRuns, errorEvents, rejections, settled,
                 docOps>>

\* context.listDocuments() of record r; the array is written as a set
listDocuments(r) ==
  /\ records[r].hasContext
  /\ result' = [op |-> "listDocuments", code |-> "", rec |-> r,
                value |-> {cloneDocument(StoreObject(u)) :
                             u \in {x \in DOMAIN documents :
                                      documents[x].languageId = records[r].languageId}}]
  /\ UNCHANGED <<disposed, disposing, wire, bus, languages, records, documents, errorListeners,
                 handlerCalls, issuedOps, cleanupRuns, errorEvents, rejections, settled,
                 docOps>>

\* the documents the latest context call has handed out
Returned ==
  CASE result.op = "getDocument" -> {result.value}
    [] result.op = "listDocuments" -> result.value
    [] OTHER -> {}

\* The adapter assigns to the text and the version of the documents it was
\* handed: the store changes where it was handed the store's own object.
ChangeReturned ==
  /\ \E d \in Returned : d.defined
  /\ documents' =
       [u \in DOMAIN documents |->
          IF \E d \in Returned : d.defined /\ d.live /\ d.uri = u
          THEN [documents[u] EXCEPT !.text = <<>>, !.version = @ + 1]
          ELSE documents[u]]
  /\ result' = [op |-> "changeReturned", code |-> "", rec |-> result.rec]
  /\ UNCHANGED <<disposed, disposing, wire, bus, languages, records, errorListeners,
                 handlerCalls, issuedOps, cleanupRuns, errorEvents, rejections, settled,
                 docOps>>

----------------------------------------------------------------------------
(* Document store: openDocument, updateDocument, closeDocument *)

\* version >>> 0 on the integers 0 .. 2^32 - 1, which it leaves as they are.
\* Negative and fractional versions are not among the inputs explored.
ToUint32(version) == version

RecordOf(languageId) ==
  IF languageId \in DOMAIN languages THEN languages[languageId] ELSE 0

ThrowDoc(op, code) ==
  /\ result' = Outcome(op, code)
  /\ UNCHANGED <<disposed, disposing, wire, bus, languages, records, documents, errorListeners,
                 handlerCalls, issuedOps, cleanupRuns, errorEvents, rejections, settled>>

openDocument(raw, languageId, text, version) ==
  /\ docOps < MaxDocOps
  /\ docOps' = docOps + 1
  /\ IF assertNotDisposed # "" THEN ThrowDoc("openDocument", assertNotDisposed)
     ELSE IF normalizeUri(raw).err # "" THEN ThrowDoc("openDocument", normalizeUri(raw).err)
     ELSE IF languageId \notin DOMAIN languages THEN ThrowDoc("openDocument", "UNKNOWN_LANGUAGE")
     ELSE LET normalizedUri == normalizeUri(raw).uri
              doc == [uri |-> normalizedUri, languageId |-> languageId,
                      text |-> text, version |-> ToUint32(version)]
          IN  /\ documents' = Put(documents, normalizedUri, doc)
              /\ Commit(HostSync(World, RecordOf(languageId), "openDocument",
                                           [uri |-> normalizedUri, languageId |-> languageId,
                                            text |-> doc.text, version |-> doc.version]))
              /\ result' = [op |-> "openDocument", code |-> "", value |-> doc]
              /\ UNCHANGED <<disposed, disposing, wire, bus, languages, errorListeners, settled>>

\* what updateDocument was called with
UpdateArgs(raw, version, changes) == [uri |-> raw, version |-> version, changes |-> changes]

\* an updateDocument that has stored the new version before it looks at the
\* changes
ThrowUpdateVersionStored(args, code) ==
  /\ result' = [op |-> "updateDocument", code |-> code, args |-> args]
  /\ documents' =
       IF code \in {"INVALID_CHANGES", "INVALID_CHANGE", InvalidPosition}
       THEN [documents EXCEPT ![normalizeUri(args.uri).uri].version = args.version]
       ELSE documents
  /\ UNCHANGED <<disposed, disposing, wire, bus, languages, records, errorListeners,
                 handlerCalls, issuedOps, cleanupRuns, errorEvents, rejections, settled>>

ThrowUpdate(args, code) ==
  /\ result' = [op |-> "updateDocument", code |-> code, args |-> args]
  /\ UNCHANGED <<disposed, disposing, wire, bus, languages, records, documents, errorListeners,
                 handlerCalls, issuedOps, cleanupRuns, errorEvents, rejections, settled>>

\* `changes` is [isArray, items]
updateDocument(raw, version, changes) ==
  /\ docOps < MaxDocOps
  /\ docOps' = docOps + 1
  /\ LET args == UpdateArgs(raw, version, changes) IN
     IF assertNotDisposed # "" THEN ThrowUpdate(args, assertNotDisposed)
     ELSE IF normalizeUri(raw).err # "" THEN ThrowUpdate(args, normalizeUri(raw).err)
     ELSE IF normalizeUri(raw).uri \notin DOMAIN documents
     THEN ThrowUpdate(args, "DOCUMENT_NOT_OPEN")
     ELSE LET doc == documents[normalizeUri(raw).uri] IN
          IF version <= doc.version THEN ThrowUpdate(args, "INVALID_VERSION")
          ELSE IF ~changes.isArray THEN ThrowUpdate(args, "INVALID_CHANGES")
          ELSE LET applied == ApplyChanges(doc.text, changes.items) IN
               IF applied.err # "" THEN ThrowUpdate(args, applied.err)
               ELSE LET updated == [doc EXCEPT !.text = applied.text, !.version = version]
                        outgoingChanges ==
                          IF Len(changes.items) > 0 THEN changes.items
                          ELSE <<FullTextChange(updated.text)>>
                    IN  /\ documents' = [documents EXCEPT ![doc.uri] = updated]
                        /\ Commit(HostSync(
                                    World, RecordOf(doc.languageId), "updateDocument",
                                    [uri |-> updated.uri, languageId |-> updated.languageId,
                                     version |-> updated.version, text |-> updated.text,
                                     changes |-> outgoingChanges]))
                        /\ result' = [op |-> "updateDocument", code |-> "",
                                      value |-> updated, args |-> args]
                        /\ UNCHANGED <<disposed, disposing, wire, bus, languages, errorListeners, settled>>

closeDocument(raw) ==
  /\ docOps < MaxDocOps
  /\ docOps' = docOps + 1
  /\ IF assertNotDisposed # "" THEN ThrowDoc("closeDocument", assertNotDisposed)
     ELSE IF normalizeUri(raw).err # "" THEN ThrowDoc("closeDocument", normalizeUri(raw).err)
     ELSE LET normalizedUri == normalizeUri(raw).uri IN
          IF normalizedUri \notin DOMAIN documents
          THEN /\ result' = [op |-> "closeDocument", code |-> "", value |-> FALSE]
               /\ UNCHANGED <<disposed, disposing, wire, bus, languages, records, documents, errorListeners,
                              handlerCalls, issuedOps, cleanupRuns, errorEvents, rejections, settled>>
          ELSE /\ Commit(HostSync(World, RecordOf(documents[normalizedUri].languageId),
                                  "closeDocument", [uri |-> normalizedUri]))
               /\ documents' = Drop(documents, normalizedUri)
               /\ result' = [op |-> "closeDocument", code |-> "", value |-> TRUE]
               /\ UNCHANGED <<disposed, disposing, wire, bus, languages, errorListeners, settled>>

----------------------------------------------------------------------------
(* applyWorkspaceEdit *)

\* A workspace edit is [isObject, documentChanges, changes]; documentChanges
\* is [defined, isArray, items] and changes is [isObject, entries], the entries
\* in the order of Object.entries.  A document change is [kind |-> "null"]
\* (not an object), [kind |-> "edit", uri, edits] (a TextDocumentEdit),
\* [kind |-> "rename", oldUri, newUri] or [kind |-> "create"]; edits is
\* [isArray, items] and an item is [hasRange, range, newText].

\* '' as the uri of a failure
EmptyUri == [form |-> "empty", uri |-> ""]

\* (error as Error).message
Message(err) ==
  CASE err = "INVALID_URI" -> "Document uri must be a non-empty string."
    [] err = "INVALID_POSITION" -> "Position line and character must be non-negative."
    [] OTHER -> err

NoThrow == [code |-> "", index |-> 0]

\* The locals of one applyWorkspaceEdit call together with the client state
\* it works on.  failedChangeIndex is <<>> while undefined.  `at`, kept with
\* each failure, is the place of the failed change in the edit (documentChanges
\* first, then the entries of changes); the code does not keep it.
NewRun ==
  [w |-> World, docs |-> documents, failures |-> <<>>, failedChangeIndex |-> <<>>,
   thrown |-> NoThrow]

\* a recordFailure that keeps the index of the latest failure
recordFailureLatest(run, uri, reason, index, at) ==
  [run EXCEPT !.failures = Append(@, [uri |-> uri, reason |-> reason, at |-> at]),
              !.failedChangeIndex = <<index>>]

recordFailure(run, uri, reason, index, at) ==
  [run EXCEPT !.failures = Append(@, [uri |-> uri, reason |-> reason, at |-> at]),
              !.failedChangeIndex = IF @ = <<>> THEN <<index>> ELSE @]

\* an edit that tells the adapter and leaves the store as it was
NotifyEditedUnstored(run, updated, changes) ==
  [run EXCEPT
     !.w = HostSync(@, RecordOf(updated.languageId), "updateDocument",
                    [uri |-> updated.uri, languageId |-> updated.languageId,
                     version |-> updated.version, text |-> updated.text,
                     changes |-> changes])]

\* lines 485-493: the adapter hears of the edited document
NotifyEdited(run, updated, changes) ==
  [run EXCEPT
     !.docs = Put(@, updated.uri, updated),
     !.w = HostSync(@, RecordOf(updated.languageId), "updateDocument",
                    [uri |-> updated.uri, languageId |-> updated.languageId,
                     version |-> updated.version, text |-> updated.text,
                     changes |-> changes])]

\* lines 482-499, `applied` being what applyTextEdits made of the document's
\* text; `rethrows` is typeof edit.documentChanges !== 'undefined'
StoreEdited(run, uri, document, edits, applied, index, at, rethrows) ==
  IF applied.err # ""
  THEN [recordFailure(run, uri, Message(applied.err), index, at)
          EXCEPT !.thrown = IF rethrows THEN [code |-> applied.err, index |-> index]
                            ELSE NoThrow]
  ELSE NotifyEdited(run, [document EXCEPT !.text = applied.text, !.version = @ + 1],
                    [i \in 1..Len(edits) |->
                       [hasText |-> TRUE, text |-> edits[i].newText,
                        hasRange |-> TRUE, range |-> edits[i].range]])

\* lines 467-482, on the open document
EditDocument(run, uri, document, edits, index, at, rethrows) ==
  IF edits = <<>> THEN run
  ELSE IF \E i \in 1..Len(edits) : ~edits[i].hasRange
  THEN recordFailure(run, uri, "Text edit range missing", index, at)
  ELSE StoreEdited(run, uri, document, edits,
                   applyTextEdits(document.text,
                                  [i \in 1..Len(edits) |->
                                     [range |-> edits[i].range,
                                      newText |-> edits[i].newText]]),
                   index, at, rethrows)

handleTextDocumentEdit(run, change, index, at, rethrows) ==
  IF change.uri.form \in {"absent", "empty"}
  THEN recordFailure(run, EmptyUri, "Missing textDocument URI", index, at)
  ELSE IF normalizeUri(change.uri).err # ""
  THEN recordFailure(run, change.uri, Message(normalizeUri(change.uri).err), index, at)
  ELSE IF normalizeUri(change.uri).uri \notin DOMAIN run.docs
  THEN recordFailure(run, change.uri, "Document not open", index, at)
  ELSE EditDocument(run, change.uri, run.docs[normalizeUri(change.uri).uri],
                    IF change.edits.isArray THEN change.edits.items ELSE <<>>,
                    index, at, rethrows)

\* a rename that tells the adapter of the new URI before it closes the old one
MoveDocumentOpensFirst(run, document, normalizedOld, normalizedNew) ==
  [run EXCEPT
     !.docs = Put(Drop(@, normalizedOld), normalizedNew,
                  [document EXCEPT !.uri = normalizedNew]),
     !.w = HostSync(HostSync(@, RecordOf(document.languageId), "openDocument",
                             [uri |-> normalizedNew, languageId |-> document.languageId,
                              version |-> document.version, text |-> document.text]),
                    RecordOf(document.languageId), "closeDocument",
                    [uri |-> normalizedOld])]

\* lines 526-537: `document` moves from normalizedOld to normalizedNew
MoveDocument(run, document, normalizedOld, normalizedNew) ==
  [run EXCEPT
     !.docs = Put(Drop(@, normalizedOld), normalizedNew,
                  [document EXCEPT !.uri = normalizedNew]),
     !.w = HostSync(HostSync(@, RecordOf(document.languageId), "closeDocument",
                             [uri |-> normalizedOld]),
                    RecordOf(document.languageId), "openDocument",
                    [uri |-> normalizedNew, languageId |-> document.languageId,
                     version |-> document.version, text |-> document.text])]

\* lines 507-539; a uri of form "absent" is one that is not a string
renameDocument(run, oldUri, newUri, index, at) ==
  IF oldUri.form = "absent" \/ newUri.form = "absent"
  THEN recordFailure(run,
                     IF oldUri.form # "absent" THEN oldUri
                     ELSE IF newUri.form # "absent" THEN newUri ELSE EmptyUri,
                     "Invalid rename change", index, at)
  ELSE IF normalizeUri(oldUri).err # ""
  THEN recordFailure(run, oldUri, Message(normalizeUri(oldUri).err), index, at)
  ELSE IF normalizeUri(newUri).err # ""
  THEN recordFailure(run, oldUri, Message(normalizeUri(newUri).err), index, at)
  ELSE IF normalizeUri(oldUri).uri \notin DOMAIN run.docs
  THEN recordFailure(run, oldUri, "Document not open", index, at)
  ELSE MoveDocument(run, run.docs[normalizeUri(oldUri).uri],
                    normalizeUri(oldUri).uri, normalizeUri(newUri).uri)

processChange(run, change, index, at, rethrows) ==
  CASE change.kind = "null" -> run
    [] change.kind = "rename" ->
         renameDocument(run, change.oldUri, change.newUri, index, at)
    [] change.kind = "edit" -> handleTextDocumentEdit(run, change, index, at, rethrows)
    [] OTHER -> recordFailure(run, EmptyUri, "Unsupported workspace edit change kind",
                              index, at)

RECURSIVE DocumentChangesLoop(_, _, _, _, _)
RECURSIVE DocumentChangesNext(_, _, _, _, _)

\* edit.documentChanges.forEach inside its try/catch, from changeCounter on;
\* gives the run and the changeCounter it ends with
DocumentChangesLoop(run, items, changeCounter, at, rethrows) ==
  IF items = <<>> THEN [run |-> run, changeCounter |-> changeCounter]
  ELSE DocumentChangesNext(processChange(run, Head(items), changeCounter, at, rethrows),
                           Tail(items), changeCounter, at, rethrows)

\* past a change that left the run `next`: a throw ends the loop and is
\* swallowed by the catch at lines 561-563, changeCounter staying as it was
DocumentChangesNext(next, items, changeCounter, at, rethrows) ==
  IF next.thrown # NoThrow
  THEN [run |-> [next EXCEPT !.thrown = NoThrow], changeCounter |-> changeCounter]
  ELSE DocumentChangesLoop(next, items, changeCounter + 1, at + 1, rethrows)

\* { textDocument: { uri }, edits: Array.isArray(edits) ? edits : [] }
EntryEdit(entry) ==
  [kind |-> "edit", uri |-> entry.uri,
   edits |-> [isArray |-> TRUE,
              items |-> IF entry.edits.isArray THEN entry.edits.items ELSE <<>>]]

RECURSIVE ChangesLoop(_, _, _, _, _)
RECURSIVE ChangesNext(_, _, _, _, _)

\* the loop over Object.entries(edit.changes)
ChangesLoop(run, entries, changeCounter, at, rethrows) ==
  IF entries = <<>> THEN run
  ELSE ChangesNext(handleTextDocumentEdit(run, EntryEdit(Head(entries)), changeCounter,
                                          at, rethrows),
                   Tail(entries), changeCounter, at, rethrows)

\* a throw leaves the loop and applyWorkspaceEdit
ChangesNext(next, entries, changeCounter, at, rethrows) ==
  IF next.thrown # NoThrow THEN next
  ELSE ChangesLoop(next, entries, changeCounter + 1, at + 1, rethrows)

\* lines 554-563
RunDocumentChanges(edit) ==
  IF edit.documentChanges.isArray
  THEN DocumentChangesLoop(NewRun, edit.documentChanges.items, 0, 0,
                           edit.documentChanges.defined)
  ELSE [run |-> NewRun, changeCounter |-> 0]

\* lines 565-575, `first` being what the documentChanges left
RunChanges(edit, first) ==
  IF edit.changes.isObject
  THEN ChangesLoop(first.run, edit.changes.entries, first.changeCounter,
                   IF edit.documentChanges.isArray
                   THEN Len(edit.documentChanges.items) ELSE 0,
                   edit.documentChanges.defined)
  ELSE first.run

\* lines 577-587, or the throw of line 497 leaving applyWorkspaceEdit; args
\* is the edit the call was made with
EditResult(edit, last) ==
  IF last.thrown # NoThrow
  THEN [op |-> "applyWorkspaceEdit", code |-> last.thrown.code, args |-> edit,
        index |-> last.thrown.index, failures |-> last.failures]
  ELSE [op |-> "applyWorkspaceEdit", code |-> "", args |-> edit,
        applied |-> Len(last.failures) = 0,
        failures |-> last.failures,
        failureReason |-> IF Len(last.failures) > 0
                          THEN <<last.failures[1].reason>> ELSE <<>>,
        failedChange |-> IF Len(last.failures) = 0 THEN <<>>
                         ELSE IF last.failedChangeIndex = <<>> THEN <<0>>
                         ELSE last.failedChangeIndex]

EndEdit(edit, last) ==
  /\ documents' = last.docs
  /\ Commit(last.w)
  /\ result' = EditResult(edit, last)
  /\ UNCHANGED <<disposed, disposing, wire, bus, languages, errorListeners, settled>>

applyWorkspaceEdit(edit) ==
  /\ docOps < MaxDocOps
  /\ docOps' = docOps + 1
  /\ IF assertNotDisposed # "" THEN ThrowDoc("applyWorkspaceEdit", assertNotDisposed)
     ELSE IF ~edit.isObject THEN ThrowDoc("applyWorkspaceEdit", "INVALID_EDIT")
     ELSE EndEdit(edit, RunChanges(edit, RunDocumentChanges(edit)))

----------------------------------------------------------------------------
(* Routed host calls *)

Routed(op, handlerName, params) ==
  /\ result' = RoutedOutcome(assertNotDisposed # "", languages, records, documents, op, handlerName, params)
  /\ UNCHANGED <<disposed, disposing, wire, bus, languages, records, documents, errorListeners, handlerCalls,
                 issuedOps, cleanupRuns, errorEvents, rejections, settled, docOps>>

forward(handlerName, params) == Routed("forward", handlerName, params)

sendRequest(params) == Routed("sendRequest", "sendRequest", params)

sendNotification(params) == Routed("sendNotification", "sendNotification", params)

----------------------------------------------------------------------------
(* utils/jsonRpc: JsonRpcConnection over a readable and a writable stream.  *)
(* A string is a sequence of symbols, each one UTF-16 code unit long.  The  *)
(* symbol "Content-Length: " stands for these sixteen characters, "U+00E9"  *)
(* for the letter e with an acute accent (two bytes in UTF-8), and the      *)
(* symbols of JsonMessage each for the ASCII text of the members of one     *)
(* JSON-RPC message.                                                        *)

CR == "\r"

ContentLengthName == "Content-Length: "

Digits == <<"0", "1", "2", "3", "4", "5", "6", "7", "8", "9">>

TextChars == {"a", "U+00E9"}

\* the id of a message without one
NoId == -1

ResultOf == <<"result:0", "result:1", "result:2", "result:3">>

\* what JSON.parse makes of a message symbol: its id, its method ("" for
\* none) and whether it has an error member
JsonMessage(sym) ==
  IF \E i \in 1..Len(ResultOf) : ResultOf[i] = sym
  THEN [id |-> (CHOOSE i \in 1..Len(ResultOf) : ResultOf[i] = sym) - 1, method |-> "",
        error |-> FALSE]
  ELSE CASE sym = "error:0" -> [id |-> 0, method |-> "", error |-> TRUE]
         [] sym = "request:0" -> [id |-> 0, method |-> "workspace/configuration",
                                 error |-> FALSE]
         [] sym = "request:9" -> [id |-> 9, method |-> "workspace/configuration",
                                 error |-> FALSE]
         [] sym = "notify" -> [id |-> NoId, method |-> "window/logMessage", error |-> FALSE]
         [] OTHER -> [id |-> NoId, method |-> "", error |-> FALSE]

MessageSymbols == Range(ResultOf) \cup {"error:0", "request:0", "request:9", "notify"}

\* JSON.stringify of the message `sym` with a string member `text`
stringify(sym, text) == <<"{", sym>> \o text \o <<"}">>

\* JSON.parse(payload) returns
JsonParses(payload) ==
  /\ Len(payload) >= 2
  /\ payload[1] = "{"
  /\ payload[Len(payload)] = "}"
  /\ Len(payload) > 2 => payload[2] \in MessageSymbols
  /\ \A i \in 3..(Len(payload) - 1) : payload[i] \in TextChars

\* and what it returns: "{}" is an object without members
JsonParsed(payload) == IF Len(payload) = 2 THEN "bare" ELSE payload[2]

RECURSIVE ByteLength(_)
\* Buffer.byteLength(payload, 'utf8')
ByteLength(payload) ==
  IF payload = <<>> THEN 0
  ELSE (IF Head(payload) = "U+00E9" THEN 2 ELSE 1) + ByteLength(Tail(payload))

RECURSIVE Decimal(_)
\* the digits of n as the template literal writes them
Decimal(n) ==
  IF n < 10 THEN <<Digits[n + 1]>>
  ELSE Decimal(n \div 10) \o <<Digits[(n % 10) + 1]>>

\* the content writeFrame writes for payload, line 230
FrameContent(payload) ==
  <<ContentLengthName>> \o Decimal(ByteLength(payload)) \o <<CR, LF, CR, LF>> \o payload

\* buffer.indexOf('\r\n\r\n'), counted from 1; 0 for -1
HeaderEnd(buffer) ==
  LET hits == {i \in 1..(Len(buffer) - 3) :
                 /\ buffer[i] = CR /\ buffer[i + 1] = LF
                 /\ buffer[i + 2] = CR /\ buffer[i + 3] = LF}
  IN  IF hits = {} THEN 0 ELSE CHOOSE i \in hits : \A j \in hits : i <= j

RECURSIVE DigitRun(_, _, _)
\* parseInt of the digits of header from position i on
DigitRun(header, i, acc) ==
  IF i > Len(header) \/ header[i] \notin Range(Digits) THEN acc
  ELSE DigitRun(header, i + 1,
                acc * 10 + (CHOOSE v \in 0..9 : Digits[v + 1] = header[i]))

\* /Content-Length: (\d+)/i on the header and parseInt of its group; -1 when
\* it does not match
LengthMatch(header) ==
  LET hits == {i \in 1..(Len(header) - 1) :
                 header[i] = ContentLengthName /\ header[i + 1] \in Range(Digits)}
  IN  IF hits = {} THEN -1
      ELSE DigitRun(header, (CHOOSE i \in hits : \A j \in hits : i <= j) + 1, 0)

\* The connection with its two streams.  written: the messages of the frames
\* written to the writable; incoming: what the peer has written and the
\* readable has not yet delivered; framed, decoded: the payloads the peer has
\* framed and those handleData has sliced from the buffer; futures: for the
\* request with id i, at i + 1, the state of the promise sendRequest returned,
\* who settled it and the number of calls of its resolve and reject; timers:
\* the ids whose timer is armed; listening: the stream listeners are attached.
NewConnection ==
  [closed |-> FALSE, listening |-> TRUE, buffer |-> <<>>, nextId |-> 0,
   pending |-> EmptyMap, timers |-> {}, futures |-> <<>>, written |-> <<>>,
   incoming |-> <<>>, framed |-> <<>>, decoded |-> <<>>, emitted |-> <<>>,
   streamErrors |-> 0]

\* this.emit(event, message)
Emit(c, event, message) ==
  [c EXCEPT !.emitted = Append(@, [event |-> event, message |-> message])]

\* resolve or reject of the promise of request id is called: the first call
\* settles the promise.  `by` tells who called, `names` the method the error
\* message names ("" for none).
Settle(c, id, state, by, names) ==
  [c EXCEPT !.futures[id + 1] =
     IF @.state = "pending"
     THEN [@ EXCEPT !.state = state, !.by = by, !.names = names, !.calls = @ + 1]
     ELSE [@ EXCEPT !.calls = @ + 1]]

\* a loop over the pending requests that rejects them and neither clears
\* their timers nor the table
RejectAllKeepsPending(c, by) ==
  [c EXCEPT !.futures =
              [k \in DOMAIN @ |->
                 IF (k - 1) \notin DOMAIN c.pending THEN @[k]
                 ELSE IF @[k].state = "pending"
                 THEN [@[k] EXCEPT !.state = "rejected", !.by = by, !.calls = @ + 1]
                 ELSE [@[k] EXCEPT !.calls = @ + 1]]]

\* `for (const [, pending] of this.pending.entries())` with clearTimeout and
\* reject, then this.pending.clear()
RejectAll(c, by) ==
  [c EXCEPT !.futures =
              [k \in DOMAIN @ |->
                 IF (k - 1) \notin DOMAIN c.pending THEN @[k]
                 ELSE IF @[k].state = "pending"
                 THEN [@[k] EXCEPT !.state = "rejected", !.by = by, !.calls = @ + 1]
                 ELSE [@[k] EXCEPT !.calls = @ + 1]],
            !.timers = @ \ DOMAIN c.pending,
            !.pending = EmptyMap]

handleError(c, error) ==
  IF c.closed THEN Emit(c, "error", error)
  ELSE RejectAll(Emit(c, "error", error), error)

\* a handleClose that leaves the pending requests alone
handleCloseKeepsPending(c) ==
  IF c.closed THEN c
  ELSE Emit([c EXCEPT !.closed = TRUE, !.listening = FALSE], "close", "")

\* lines 213-227
handleClose(c) ==
  IF c.closed THEN c
  ELSE Emit(RejectAll([c EXCEPT !.closed = TRUE, !.listening = FALSE], "close"),
            "close", "")

\* a Classify that leaves the timer of the request armed
ClassifyKeepsTimer(c, sym) ==
  IF JsonMessage(sym).id # NoId /\ JsonMessage(sym).id \in DOMAIN c.pending
  THEN Emit(Settle([c EXCEPT !.pending = Drop(@, JsonMessage(sym).id)],
                   JsonMessage(sym).id,
                   IF JsonMessage(sym).error THEN "rejected" ELSE "resolved",
                   IF JsonMessage(sym).error THEN "responseError" ELSE "response", ""),
            "response", sym)
  ELSE IF JsonMessage(sym).method # "" /\ JsonMessage(sym).id # NoId
  THEN Emit(c, "request", sym)
  ELSE IF JsonMessage(sym).method # "" THEN Emit(c, "notification", sym)
  ELSE c

\* a Classify that asks for a method before it looks at the pending table
ClassifyMethodFirst(c, sym) ==
  IF JsonMessage(sym).method # "" /\ JsonMessage(sym).id # NoId
  THEN Emit(c, "request", sym)
  ELSE IF JsonMessage(sym).method # "" THEN Emit(c, "notification", sym)
  ELSE IF JsonMessage(sym).id # NoId /\ JsonMessage(sym).id \in DOMAIN c.pending
  THEN Emit(Settle([c EXCEPT !.pending = Drop(@, JsonMessage(sym).id),
                             !.timers = @ \ {JsonMessage(sym).id}],
                   JsonMessage(sym).id,
                   IF JsonMessage(sym).error THEN "rejected" ELSE "resolved",
                   IF JsonMessage(sym).error THEN "responseError" ELSE "response", ""),
            "response", sym)
  ELSE c

\* lines 178-194: the message is a response to a pending request, a request
\* or a notification
Classify(c, sym) ==
  IF JsonMessage(sym).id # NoId /\ JsonMessage(sym).id \in DOMAIN c.pending
  THEN Emit(Settle([c EXCEPT !.pending = Drop(@, JsonMessage(sym).id),
                             !.timers = @ \ {JsonMessage(sym).id}],
                   JsonMessage(sym).id,
                   IF JsonMessage(sym).error THEN "rejected" ELSE "resolved",
                   IF JsonMessage(sym).error THEN "responseError" ELSE "response", ""),
            "response", sym)
  ELSE IF JsonMessage(sym).method # "" /\ JsonMessage(sym).id # NoId
  THEN Emit(c, "request", sym)
  ELSE IF JsonMessage(sym).method # "" THEN Emit(c, "notification", sym)
  ELSE c

\* lines 175-197 for the payload sliced from the buffer
Dispatch(c, payload) ==
  IF ~JsonParses(payload) THEN handleError(c, "parse")
  ELSE Classify(Emit(c, "message", JsonParsed(payload)), JsonParsed(payload))

RECURSIVE HandleBuffer(_)
RECURSIVE HandleHeader(_, _)
RECURSIVE HandleFrame(_, _, _)
\* the while loop of handleData: one turn
HandleBuffer(c) == HandleHeader(c, HeaderEnd(c.buffer))

\* i: where the header ends
HandleHeader(c, i) ==
  IF i = 0 THEN c
  ELSE HandleFrame(c, i, LengthMatch(SubSeq(c.buffer, 1, i - 1)))

\* contentLength: what the header gives as the length of the payload
HandleFrame(c, i, contentLength) ==
  IF contentLength < 0
  THEN HandleBuffer([c EXCEPT !.buffer = SubSeq(@, i + 4, Len(@))])
  ELSE IF Len(c.buffer) < i + 3 + contentLength THEN c
  ELSE HandleBuffer(
         Dispatch([c EXCEPT !.buffer = SubSeq(@, i + 4 + contentLength, Len(@)),
                            !.decoded = Append(@, SubSeq(c.buffer, i + 4,
                                                         i + 3 + contentLength))],
                  SubSeq(c.buffer, i + 4, i + 3 + contentLength)))

handleData(c, fragment) == HandleBuffer([c EXCEPT !.buffer = @ \o fragment])

\* the frame of `message` is written to the writable
writeFrame(c, message) == [c EXCEPT !.written = Append(@, message)]

ConnectionClosed == "CONNECTION_CLOSED"

\* a call of the connection that changes the connection only
ConnStep(op, code, c) ==
  /\ conn' = c
  /\ result' = [op |-> op, code |-> code]
  /\ UNCHANGED <<client, backend>>

\* sendRequest(method, params, {timeout}): an async function, so the error
\* for a closed connection comes as a rejected promise
connSendRequest(method, timeout) ==
  /\ conn.closed \/ conn.nextId < MaxRequests
  /\ IF conn.closed THEN ConnStep("connSendRequest", ConnectionClosed, conn)
     ELSE ConnStep("connSendRequest", "",
            [writeFrame(conn, [kind |-> "request", id |-> conn.nextId, method |-> method])
               EXCEPT !.nextId = @ + 1,
                      !.pending = Put(@, conn.nextId, [method |-> method]),
                      !.timers = IF timeout > 0 THEN @ \cup {conn.nextId} ELSE @,
                      !.futures = Append(@, [state |-> "pending", by |-> "", names |-> "",
                                             calls |-> 0])])

\* sendNotification, sendResponse and sendErrorResponse; one such frame is
\* written at most
connSend(kind, id, method) ==
  /\ conn.closed \/ \A i \in 1..Len(conn.written) : conn.written[i].kind = "request"
  /\ IF conn.closed THEN ConnStep(kind, ConnectionClosed, conn)
     ELSE ConnStep(kind, "",
                   writeFrame(conn, [kind |-> kind, id |-> id, method |-> method]))

connSendNotification(method) == connSend("connSendNotification", NoId, method)

connSendResponse(id) == connSend("connSendResponse", id, "")

connSendErrorResponse(id) == connSend("connSendErrorResponse", id, "")

\* the callback of the timer of request id, lines 117-123
TimerFires(id) ==
  /\ id \in conn.timers
  /\ IF id \notin DOMAIN conn.pending
     THEN ConnStep("timeout", "", [conn EXCEPT !.timers = @ \ {id}])
     ELSE ConnStep("timeout", "",
                   Settle([conn EXCEPT !.timers = @ \ {id}, !.pending = Drop(@, id)],
                          id, "rejected", "timeout", conn.pending[id].method))

connDispose ==
  IF conn.closed THEN ConnStep("connDispose", "", conn)
  ELSE ConnStep("connDispose", "",
                RejectAll([conn EXCEPT !.closed = TRUE, !.listening = FALSE,
                                       !.buffer = <<>>], "dispose"))

\* the peer writes the frame of payload to its end of the readable
PeerWrites(payload) ==
  /\ conn.listening
  /\ Len(conn.framed) < MaxFrames
  /\ ConnStep("peerWrites", "",
              [conn EXCEPT !.incoming = @ \o FrameContent(payload),
                           !.framed = Append(@, payload)])

\* a 'data' event of the readable with the next k code units
Receive(k) ==
  /\ conn.listening
  /\ k \in 1..Len(conn.incoming)
  /\ ConnStep("data", "",
              handleData([conn EXCEPT !.incoming = SubSeq(@, k + 1, Len(@))],
                         SubSeq(conn.incoming, 1, k)))

\* an 'end' or a 'close' event of the readable
StreamClosed ==
  IF conn.listening THEN ConnStep("streamClosed", "", handleClose(conn))
  ELSE ConnStep("streamClosed", "", conn)

\* an 'error' event of the readable or the writable, once
StreamError ==
  /\ conn.streamErrors = 0
  /\ IF conn.listening
     THEN ConnStep("streamError", "",
                   handleError([conn EXCEPT !.streamErrors = 1], "stream"))
     ELSE ConnStep("streamError", "", [conn EXCEPT !.streamErrors = 1])

----------------------------------------------------------------------------
(* adapters/go and adapters/typescript: the adapters that run a language    *)
(* server as a child process.  serverProcess is the number of the process   *)
(* the adapter holds (0: none; for the go adapter the process of its        *)
(* connection), dying the go processes that were killed and have not        *)
(* exited, runs the initializations started (the process and the id of the  *)
(* initialize request, and how far the async function has come), wire the   *)
(* frames written to the servers, each with the process it went to,         *)
(* shutdown how far handlers.shutdown has come and the id of its request,   *)
(* log the steps of a teardown in the order they happened.                  *)

AdapterKinds == {"go", "typescript"}

MaxProcesses == 2

MaxNotifications == 3

MaxRuns == 2

MaxBackendRequests == 3

MaxServerRequests == 2

NotificationOf ==
  [openDocument |-> "textDocument/didOpen", updateDocument |-> "textDocument/didChange",
   closeDocument |-> "textDocument/didClose", sendNotification |-> "custom/notify"]

\* typescript.ts has no handlers.sendNotification
NotifyingHandlers(kind) ==
  IF kind = "go" THEN {"openDocument", "updateDocument", "closeDocument", "sendNotification"}
  ELSE {"openDocument", "updateDocument", "closeDocument"}

NewBackend ==
  [kind |-> "none", serverProcess |-> 0, spawned |-> 0, dying |-> {},
   requestId |-> 0, nextId |-> 0, pendingRequests |-> EmptyMap,
   initialized |-> FALSE, initPromise |-> 0, runs |-> <<>>,
   initializationResult |-> <<>>, registrationContext |-> FALSE,
   received |-> <<>>, notified |-> <<>>,
   shutdown |-> [state |-> "none", id |-> NoId], disposeState |-> "none", log |-> <<>>,
   pendingNotifications |-> <<>>, wire |-> <<>>, issued |-> 0]

\* ensureServer (typescript.ts 119-123), ensureConnection (go.ts 235-295): a
\* new process, and for go a new JsonRpcConnection with nextId 0
ensureServer(b) ==
  IF b.serverProcess # 0 THEN b
  ELSE [b EXCEPT !.spawned = @ + 1, !.serverProcess = b.spawned + 1, !.nextId = 0]

WriteFrame(b, kind, id, method, seq) ==
  [b EXCEPT !.wire = Append(@, [process |-> b.serverProcess, kind |-> kind, id |-> id,
                                method |-> method, seq |-> seq, content |-> <<>>])]

\* the frame of a notification issued on behalf of the host
WriteNotification(b, n) ==
  [b EXCEPT !.wire = Append(@, [process |-> b.serverProcess, kind |-> "notification",
                                id |-> NoId, method |-> n.method, seq |-> n.seq,
                                content |-> n.content])]

\* the text-document-sync options a server may answer initialize with:
\* TextDocumentSyncOptions of index.ts, change 0 none, 1 full, 2 incremental
SyncOptions == [openClose : BOOLEAN, change : {0, 1, 2}]

IncrementalSync == [openClose |-> TRUE, change |-> 2]

\* the change lists a host passes to updateDocument: each DocumentChange has
\* a range or is a full-text change
ChangeLists ==
  {<<>>, <<[range |-> TRUE]>>, <<[range |-> FALSE]>>,
   <<[range |-> TRUE], [range |-> TRUE]>>}

\* contentChanges of handlers.updateDocument: typescript.ts 317-325,
\* go.ts 473-475
contentChanges(changes) ==
  IF Len(changes) > 0
  THEN [i \in DOMAIN changes |-> IF changes[i].range THEN "range" ELSE "text"]
  ELSE <<"text">>

\* an id allocation that hands out the current value of the counter again
NextRequestIdReused(b) ==
  IF b.kind = "typescript" THEN b.requestId ELSE 0

\* typescript.ts 150: const id = ++requestId; guards.ts 110: this.nextId++
NextRequestId(b) ==
  IF b.kind = "typescript" THEN b.requestId + 1 ELSE b.nextId

\* sendRawRequest (typescript.ts 148-172), JsonRpcConnection.sendRequest
sendRawRequest(b, method) ==
  [WriteFrame(b, "request", NextRequestId(b), method, 0)
     EXCEPT !.requestId = IF b.kind = "typescript" THEN @ + 1 ELSE @,
            !.nextId = IF b.kind = "go" THEN @ + 1 ELSE @,
            !.pendingRequests = Put(@, NextRequestId(b), [method |-> method])]

\* ensureInitialized up to its await: typescript.ts 205-233, go.ts 311-335
ensureInitialized(b) ==
  IF b.initialized \/ b.initPromise # 0 THEN b
  ELSE [sendRawRequest(ensureServer(b), "initialize")
          EXCEPT !.runs = Append(@, [process |-> ensureServer(b).serverProcess,
                                     id |-> NextRequestId(ensureServer(b)),
                                     state |-> "awaiting", result |-> <<>>]),
                 !.initPromise = Len(b.runs) + 1]

\* a sendNotification that writes at once whatever the initialization
adapterSendNotificationUnbuffered(b, n) ==
  WriteNotification(ensureServer(b), n)

\* sendNotification: typescript.ts 186-203, go.ts 371-383
adapterSendNotification(b, n) ==
  IF ~b.initialized
  THEN ensureInitialized([ensureServer(b) EXCEPT !.pendingNotifications = Append(@, n)])
  ELSE IF b.serverProcess = 0 THEN b
  ELSE WriteNotification(b, n)

\* flushPendingNotifications: typescript.ts 174-184, go.ts 297-309
flushPendingNotifications(b) ==
  IF ~b.initialized \/ b.serverProcess = 0 THEN b
  ELSE [b EXCEPT !.wire = @ \o [i \in 1..Len(b.pendingNotifications) |->
                                  [process |-> b.serverProcess, kind |-> "notification",
                                   id |-> NoId,
                                   method |-> b.pendingNotifications[i].method,
                                   seq |-> b.pendingNotifications[i].seq,
                                   content |-> b.pendingNotifications[i].content]],
                 !.pendingNotifications = <<>>]

\* the promise of request id on the current process is settled
SettleRequest(b, id, state) ==
  [b EXCEPT !.pendingRequests = Drop(@, id),
            !.shutdown = IF @.state = "racing" /\ @.id = id
                         THEN [@ EXCEPT !.state = state] ELSE @,
            !.log = IF b.shutdown.state = "racing" /\ b.shutdown.id = id
                    THEN Append(@, [event |-> "response", process |-> b.serverProcess])
                    ELSE @,
            !.runs = [k \in DOMAIN @ |->
                        IF @[k].state = "awaiting" /\ @[k].process = b.serverProcess
                           /\ @[k].id = id
                        THEN [@[k] EXCEPT !.state = state] ELSE @[k]]]

\* every pending request of the current process is rejected: the 'close'
\* handler of typescript.ts 109-113, JsonRpcConnection.dispose
RejectPendingRequests(b) ==
  [b EXCEPT !.pendingRequests = EmptyMap,
            !.shutdown = IF @.state = "racing" /\ @.id \in DOMAIN b.pendingRequests
                         THEN [@ EXCEPT !.state = "rejected"] ELSE @,
            !.runs = [k \in DOMAIN @ |->
                        IF @[k].state = "awaiting" /\ @[k].process = b.serverProcess
                           /\ @[k].id \in DOMAIN b.pendingRequests
                        THEN [@[k] EXCEPT !.state = "rejected"] ELSE @[k]]]

\* the 'close' handler of typescript.ts 107-117, the 'exit' handler of
\* go.ts 284-290: both act on what the adapter holds when they run
ResetOnExit(b) ==
  [RejectPendingRequests(b) EXCEPT !.serverProcess = 0, !.initialized = FALSE,
                                   !.initPromise = 0]

\* no continuation of an async function is waiting to run
Quiescent(b) ==
  /\ \A k \in DOMAIN b.runs : b.runs[k].state \notin {"resolved", "rejected"}
  /\ b.shutdown.state \notin {"awaitingInit", "resolved", "rejected"}
  /\ ~(b.disposeState = "waiting" /\ b.serverProcess = 0)

\* the step spawns no more than MaxProcesses processes and starts no more
\* than MaxRuns initializations
WithinBounds(b) ==
  /\ b.serverProcess = 0 => b.spawned < MaxProcesses
  /\ (~b.initialized /\ b.initPromise = 0) => Len(b.runs) < MaxRuns

BackendStep(op, b) ==
  /\ backend' = b
  /\ result' = [op |-> op, code |-> ""]
  /\ UNCHANGED <<client, conn>>

\* createGoAdapter, createTypeScriptAdapter
createAdapter(kind) ==
  /\ backend.kind = "none"
  /\ BackendStep("createAdapter", [backend EXCEPT !.kind = kind])

\* handlers.openDocument, updateDocument, closeDocument, sendNotification:
\* typescript.ts 296-338, go.ts 451-493
HostNotifies(handler, changes) ==
  /\ backend.kind # "none"
  /\ handler \in NotifyingHandlers(backend.kind)
  /\ backend.issued < MaxNotifications
  /\ WithinBounds(backend)
  /\ backend' =
       adapterSendNotification(ensureInitialized([backend EXCEPT !.issued = @ + 1]),
                        [method |-> NotificationOf[handler], seq |-> backend.issued + 1,
                         content |-> IF handler = "updateDocument"
                                     THEN contentChanges(changes) ELSE <<>>])
  /\ result' = [op |-> handler, code |-> "", changes |-> changes]
  /\ UNCHANGED <<client, conn>>

\* handlers.getHover once the adapter is initialized: ensureInitialized
\* returns a resolved promise and the request is sent
HostRequests ==
  /\ backend.initialized
  /\ backend.serverProcess # 0
  /\ Cardinality({i \in 1..Len(backend.wire) : backend.wire[i].kind = "request"})
       < MaxBackendRequests
  /\ BackendStep("getHover", sendRawRequest(backend, "textDocument/hover"))

\* the server answers request id with a result or with an error
ServerResponds(id, ok) ==
  /\ backend.serverProcess # 0
  /\ id \in DOMAIN backend.pendingRequests
  /\ Quiescent(backend)
  /\ BackendStep("response",
                 SettleRequest(backend, id, IF ok THEN "resolved" ELSE "rejected"))

\* adapter.initialize(ctx): typescript.ts 342-345, go.ts 427-431
adapterInitialize ==
  /\ backend.kind # "none"
  /\ ~backend.registrationContext
  /\ WithinBounds(backend)
  /\ BackendStep("initialize",
                 ensureInitialized([backend EXCEPT !.registrationContext = TRUE]))

\* the ids the server gives its own requests
ServerRequestIds == {7, 8}

ServerRequestMethods == {"workspace/applyEdit", "client/registerCapability"}

\* the server sends a request of its own, a message with an id and a method,
\* and the adapter decodes it.  typescript.ts 39-62: the id is not pending,
\* so handleMessage passes the message to notifyClient as if it were a
\* notification; go.ts 244-276: the connection emits 'request', for which
\* the adapter has no listener.  Neither writes a frame.
ServerRequests(id, method) ==
  /\ backend.serverProcess # 0
  /\ Quiescent(backend)
  /\ Len(backend.received) < MaxServerRequests
  /\ \A i \in 1..Len(backend.received) : backend.received[i].id # id
  /\ id \notin DOMAIN backend.pendingRequests
  /\ BackendStep("serverRequest",
       [backend EXCEPT
          !.received = Append(@, [process |-> backend.serverProcess, id |-> id,
                                  method |-> method]),
          !.notified = IF backend.kind = "typescript" /\ backend.registrationContext
                       THEN Append(@, method) ELSE @])

\* the server answers the initialize request id with capabilities whose
\* textDocumentSync is sync
ServerInitializes(id, sync) ==
  /\ backend.serverProcess # 0
  /\ id \in DOMAIN backend.pendingRequests
  /\ backend.pendingRequests[id].method = "initialize"
  /\ Quiescent(backend)
  /\ BackendStep("response",
       [SettleRequest(backend, id, "resolved")
          EXCEPT !.runs = [k \in DOMAIN @ |->
                             IF backend.runs[k].state = "awaiting"
                                /\ backend.runs[k].process = backend.serverProcess
                                /\ backend.runs[k].id = id
                             THEN [@[k] EXCEPT !.result = <<sync>>] ELSE @[k]]])

\* ensureInitialized after its await: typescript.ts 235-242, go.ts 337-341
\* with the finally of 362-364
InitContinues(k) ==
  /\ k \in DOMAIN backend.runs
  /\ backend.runs[k].state = "resolved"
  /\ IF backend.serverProcess = 0 \/ backend.runs[k].process # backend.serverProcess
     THEN BackendStep("initContinues", [backend EXCEPT !.runs[k].state = "rejected"])
     ELSE BackendStep("initContinues",
            flushPendingNotifications(
              [WriteFrame(backend, "notification", NoId, "initialized", 0)
                 EXCEPT !.initialized = TRUE,
                        !.initializationResult = backend.runs[k].result,
                        !.runs[k].state = "done",
                        !.initPromise = IF backend.kind = "go" THEN 0 ELSE @]))

\* the catch of ensureInitialized: typescript.ts 243-246, go.ts 343-364
InitCatches(k) ==
  /\ k \in DOMAIN backend.runs
  /\ backend.runs[k].state = "rejected"
  /\ IF backend.kind = "go"
     THEN BackendStep("initCatches",
            [RejectPendingRequests([backend EXCEPT !.runs[k].state = "failed"])
               EXCEPT !.initialized = FALSE,
                      !.serverProcess = 0,
                      !.dying = IF backend.serverProcess # 0
                                THEN @ \cup {backend.serverProcess} ELSE @,
                      !.initPromise = 0])
     ELSE BackendStep("initCatches",
            [backend EXCEPT !.runs[k].state = "failed", !.initPromise = 0])

\* an entry of the teardown log: what happened, and to which process
Logged(b, event) == [event |-> event, process |-> b.serverProcess]

\* shutdownProcess of go.ts 391-424 up to its await: the adapter forgets the
\* process and the connection, disposes the connection and signals the
\* process.  (serverProcess stands for the connection and its process; a
\* process that the catch of ensureInitialized has killed is in dying.)
shutdownProcess(b) ==
  [RejectPendingRequests(b)
     EXCEPT !.serverProcess = 0, !.initPromise = 0, !.initialized = FALSE,
            !.initializationResult = <<>>,
            !.dying = IF b.serverProcess # 0 THEN @ \cup {b.serverProcess} ELSE @,
            !.log = IF b.serverProcess # 0
                    THEN @ \o <<Logged(b, "dispose"), Logged(b, "SIGTERM")>> ELSE @]

\* stopServer of typescript.ts 132-146 up to its await
stopServer(b) ==
  IF b.serverProcess = 0 THEN b ELSE [b EXCEPT !.log = Append(@, Logged(b, "SIGTERM"))]

\* the shutdown request is written and raced against the 2-second timer
RaceShutdown(b) ==
  [sendRawRequest(b, "shutdown")
     EXCEPT !.shutdown = [state |-> "racing", id |-> NextRequestId(b)],
            !.log = Append(@, Logged(b, "shutdown"))]

\* the exit notification of handlers.shutdown
SendExit(b) ==
  IF ~b.initialized /\ b.kind = "typescript"
  THEN ensureInitialized([ensureServer(b) EXCEPT !.pendingNotifications =
         Append(@, [method |-> "exit", seq |-> 0, content |-> <<>>])])
  ELSE IF b.serverProcess = 0 THEN b
  ELSE [WriteFrame(b, "notification", NoId, "exit", 0)
          EXCEPT !.log = Append(@, Logged(b, "exit"))]

\* runRecordDisposables of the client (polyClient.ts 811-817) on the record
\* of an initialized adapter: handlers.shutdown and then dispose are called,
\* each runs up to its first await.  go.ts 432-436 and 504-508,
\* typescript.ts 261-266 and 356-358.
ClientTeardown ==
  /\ backend.initialized
  /\ backend.serverProcess # 0
  /\ backend.shutdown.state = "none"
  /\ Quiescent(backend)
  /\ IF backend.kind = "go"
     THEN BackendStep("teardown",
            shutdownProcess([RaceShutdown(backend)
                               EXCEPT !.pendingNotifications = <<>>,
                                      !.registrationContext = FALSE,
                                      !.disposeState = "done"]))
     ELSE BackendStep("teardown",
            stopServer([backend EXCEPT !.shutdown.state = "awaitingInit",
                                       !.disposeState = "waiting"]))

\* handlers.shutdown after an await: go.ts 441-449, typescript.ts 265-293
ShutdownContinues ==
  /\ backend.shutdown.state \in {"awaitingInit", "resolved", "rejected"}
  /\ IF backend.shutdown.state = "awaitingInit"
     THEN BackendStep("shutdownContinues", RaceShutdown(ensureServer(backend)))
     ELSE IF backend.kind = "go"
     THEN BackendStep("shutdownContinues",
            shutdownProcess(
              [(IF backend.shutdown.state = "resolved" THEN SendExit(backend) ELSE backend)
                 EXCEPT !.shutdown.state = "done"]))
     ELSE BackendStep("shutdownContinues",
            stopServer(RejectPendingRequests(
              [(IF backend.shutdown.state = "resolved" THEN SendExit(backend) ELSE backend)
                 EXCEPT !.shutdown.state = "done"])))

\* the 2-second timer of handlers.shutdown wins the race
ShutdownTimerFires ==
  /\ backend.shutdown.state = "racing"
  /\ Quiescent(backend)
  /\ BackendStep("shutdownTimer",
                 [backend EXCEPT !.shutdown.state = "resolved",
                                 !.log = Append(@, Logged(backend, "timer"))])

\* dispose of the typescript adapter after stopServer: typescript.ts 358-366
DisposeContinues ==
  /\ backend.disposeState = "waiting"
  /\ backend.serverProcess = 0
  /\ backend.shutdown.state \notin {"awaitingInit", "resolved", "rejected"}
  /\ BackendStep("disposeContinues",
                 [backend EXCEPT !.disposeState = "done", !.pendingRequests = EmptyMap,
                                 !.registrationContext = FALSE,
                                 !.initializationResult = <<>>, !.initPromise = 0,
                                 !.pendingNotifications = <<>>])

\* the process the adapter holds exits
ProcessExits ==
  /\ backend.serverProcess # 0
  /\ Quiescent(backend)
  /\ BackendStep("processExits", ResetOnExit(backend))

\* the 'exit' event of a go process that was killed
ExitEvent(p) ==
  /\ p \in backend.dying
  /\ Quiescent(backend)
  /\ BackendStep("exitEvent", [ResetOnExit(backend) EXCEPT !.dying = @ \ {p}])

----------------------------------------------------------------------------
(* The client from construction on: registry lifecycle, queued document     *)
(* sync and the readiness gate                                              *)

LangIds == {"one", "two"}

UriA == "file:///a.ts"

UriB == "file:///b.ts"

Canonical(uri) == [form |-> "canonical", uri |-> uri]

Params(languageIds, uris) ==
  [isObject |-> TRUE, languageIds |-> languageIds, uris |-> uris]

NoIds == <<Absent, Absent, Absent, Absent>>

NoUris == <<AbsentUri, AbsentUri, AbsentUri, AbsentUri>>

Init ==
  /\ disposed = FALSE
  /\ languages = EmptyMap
  /\ records = <<>>
  /\ documents = EmptyMap
  /\ errorListeners = <<>>
  /\ handlerCalls = <<>>
  /\ issuedOps = <<>>
  /\ cleanupRuns = <<>>
  /\ errorEvents = <<>>
  /\ settled = <<>>
  /\ result = Outcome("constructor", "")
  /\ docOps = 0
  /\ disposing = FALSE
  /\ diagnosticListeners = EmptyMap
  /\ workspaceListeners = EmptyMap
  /\ notificationListeners = EmptyMap
  /\ subscriptions = <<>>
  /\ rejections = <<>>
  /\ conn = NewConnection
  /\ backend = NewBackend

\* The registry: adapters come and go, their initialize settles, the client is
\* disposed.
Next ==
  \/ \E l \in LangIds \cup {""}, a \in AdapterShapes : registerLanguage(l, a)
  \/ \E r \in 1..Len(records) : InitializeResolved(r)
  \/ \E r \in 1..Len(records), e \in ErrorValues : InitializeRejected(r, e, NoCall)
  \/ \E l \in LangIds : unregisterLanguage(l)
  \/ dispose
  \/ onError(1)

Spec == Init /\ [][Next]_vars

----------------------------------------------------------------------------
(* Document sync and routed calls against one adapter, registered once,     *)
(* that may still be initializing                                           *)

SyncLang == "one"

SyncShapes == {a \in AdapterShapes : a.init \in {"async", "sync"}}

\* the bare path /a.ts
SyncUris == {[form |-> "path", uri |-> UriA]}

\* a change that puts `text` in front of the document
InsertInFront(text) ==
  [hasText |-> TRUE, text |-> text, hasRange |-> TRUE,
   range |-> [start |-> Position(0, 0), end |-> Position(0, 0)]]

\* [{ text: 'b' }], [] and two ranged changes
SyncChanges ==
  {[isArray |-> TRUE, items |-> <<FullTextChange(<<"b">>)>>],
   [isArray |-> TRUE, items |-> <<>>],
   [isArray |-> TRUE, items |-> <<InsertInFront(<<"x">>), InsertInFront(<<"y">>)>>]}

\* { textDocument: { uri } } and { languageId }
SyncParams ==
  {Params(NoIds, <<AbsentUri, Canonical(UriA), AbsentUri, AbsentUri>>),
   Params(<<SyncLang, Absent, Absent, Absent>>, NoUris)}

SyncNext ==
  \/ \E a \in SyncShapes : records = <<>> /\ registerLanguage(SyncLang, a)
  \/ \E r \in 1..Len(records) : InitializeResolved(r)
  \/ \E r \in 1..Len(records), e \in ErrorValues,
        c \in {NoCall} \cup {[handler |-> "getHover", params |-> p] : p \in SyncParams} :
       InitializeRejected(r, e, c)
  \/ unregisterLanguage(SyncLang)
  \/ dispose
  \/ onError(1)
  \/ \E raw \in SyncUris : openDocument(raw, SyncLang, <<"a">>, 1)
  \/ \E raw \in SyncUris, v \in 2..3, c \in SyncChanges : updateDocument(raw, v, c)
  \/ \E raw \in SyncUris : closeDocument(raw)
  \/ \E p \in SyncParams : forward("getHover", p)
  \/ \E p \in SyncParams : sendRequest(p)
  \/ \E p \in SyncParams : sendNotification(p)

SpecSync == Init /\ [][SyncNext]_vars

----------------------------------------------------------------------------
(* Routing of host calls among ready adapters                               *)

\* an adapter without initialize and without document-sync handlers
RouteShape ==
  [handlers |-> {"getHover", "sendRequest", "sendNotification"}, init |-> "none",
   registers |-> 0, hasDispose |-> FALSE, cleanup |-> "sync", fails |-> "none"]

\* a languageId candidate: a registered or unregistered language, or ''
RouteIds == LangIds \cup {""}

\* a uri candidate: an open or closed document's uri, a bare path, a blank string
RouteUris ==
  {Canonical(UriA), Canonical(UriB), [form |-> "path", uri |-> UriA],
   [form |-> "blank", uri |-> ""]}

Slots == 1..4

OneId(i, id) == [k \in Slots |-> IF k = i THEN id ELSE Absent]

OneUri(i, u) == [k \in Slots |-> IF k = i THEN u ELSE AbsentUri]

TwoIds(i, a, b) ==
  [k \in Slots |-> IF k = i THEN a ELSE IF k = i + 1 THEN b ELSE Absent]

TwoUris(i, a, b) ==
  [k \in Slots |-> IF k = i THEN a ELSE IF k = i + 1 THEN b ELSE AbsentUri]

\* params with one candidate, in any of the places routing looks at
SingleParams ==
  {Params(NoIds, NoUris)}
    \cup {Params(OneId(i, id), NoUris) : i \in Slots, id \in RouteIds}
    \cup {Params(NoIds, OneUri(i, u)) : i \in Slots, u \in RouteUris}

\* what a second candidate is tried against
PairUris == RouteUris \ {[form |-> "path", uri |-> UriA]}

\* params with two candidates
PairParams ==
  {Params(TwoIds(i, a, b), NoUris) : i \in 1..3, a \in RouteIds, b \in RouteIds}
    \cup {Params(NoIds, TwoUris(i, a, b)) : i \in 1..3, a \in PairUris, b \in PairUris}
    \cup {Params(OneId(i, id), OneUri(i, u)) : i \in Slots, id \in RouteIds, u \in PairUris}

NotAnObject == [isObject |-> FALSE, languageIds |-> NoIds, uris |-> NoUris]

RouteParams == SingleParams \cup PairParams \cup {NotAnObject}

\* { }, a non-object, { languageId } and { textDocument: { uri } }
PlainParams ==
  {Params(NoIds, NoUris), NotAnObject, Params(OneId(1, "one"), NoUris),
   Params(NoIds, OneUri(2, Canonical(UriA)))}

NeverRegistered(l) == \A r \in 1..Len(records) : records[r].languageId # l

\* each language is registered at most once
RouteNext ==
  \/ \E l \in LangIds : NeverRegistered(l) /\ registerLanguage(l, RouteShape)
  \/ \E l \in LangIds : unregisterLanguage(l)
  \/ \E u \in {UriA, UriB}, l \in LangIds : openDocument(Canonical(u), l, <<"a">>, 1)
  \/ \E p \in RouteParams : sendRequest(p)
  \/ \E p \in PlainParams : sendNotification(p)
  \/ \E p \in PlainParams : forward("getHover", p)

SpecRoute == Init /\ [][RouteNext]_vars

----------------------------------------------------------------------------
(* Documents under updateDocument and applyWorkspaceEdit                    *)

\* an adapter without initialize that handles the document-sync calls
DocShape ==
  [handlers |-> DocSyncOps, init |-> "none", registers |-> 0, hasDispose |-> FALSE,
   cleanup |-> "sync", fails |-> "none"]

DocLang == "one"

DocText == <<"a", "b">>

At(line, character) ==
  [start |-> Position(line, character), end |-> Position(line, character)]

\* inserts x behind the first character
InsertX == [hasRange |-> TRUE, range |-> At(0, 1), newText |-> <<"x">>]

\* an edit at line -1, which offsetAt refuses
BadEdit == [hasRange |-> TRUE, range |-> At(0 - 1, 0), newText |-> <<"x">>]

NoRangeEdit == [hasRange |-> FALSE, range |-> NoRange, newText |-> <<"x">>]

TextDocumentEdit(uri, items) ==
  [kind |-> "edit", uri |-> Canonical(uri), edits |-> [isArray |-> TRUE, items |-> items]]

DocChanges ==
  {TextDocumentEdit(UriA, <<InsertX>>), TextDocumentEdit(UriA, <<BadEdit>>),
   TextDocumentEdit(UriA, <<NoRangeEdit>>), TextDocumentEdit(UriB, <<InsertX>>),
   TextDocumentEdit(UriA, <<>>),
   [kind |-> "rename", oldUri |-> Canonical(UriA), newUri |-> Canonical(UriB)],
   [kind |-> "create"]}

\* documentChanges: undefined, null, or an array of up to two changes
DocumentChangesOf ==
  {[defined |-> FALSE, isArray |-> FALSE, items |-> <<>>],
   [defined |-> TRUE, isArray |-> FALSE, items |-> <<>>],
   [defined |-> TRUE, isArray |-> TRUE, items |-> <<>>]}
    \cup {[defined |-> TRUE, isArray |-> TRUE, items |-> <<c>>] : c \in DocChanges}
    \cup {[defined |-> TRUE, isArray |-> TRUE, items |-> <<c, d>>] :
            c \in DocChanges, d \in DocChanges}

\* a URI with blanks around it, which normalizeUri trims
Padded(uri) == [form |-> "padded", uri |-> uri]

ChangesEntry(raw, items) ==
  [uri |-> raw, edits |-> [isArray |-> TRUE, items |-> items]]

\* changes: undefined, or a map with one entry
ChangesOf ==
  {[isObject |-> FALSE, entries |-> <<>>]}
    \cup {[isObject |-> TRUE, entries |-> <<e>>] :
            e \in {ChangesEntry(Canonical(UriA), <<BadEdit>>),
                   ChangesEntry(Padded(UriB), <<InsertX>>)}}

WorkspaceEdits ==
  {[isObject |-> FALSE, documentChanges |-> [defined |-> FALSE, isArray |-> FALSE, items |-> <<>>],
    changes |-> [isObject |-> FALSE, entries |-> <<>>]]}
    \cup {[isObject |-> TRUE, documentChanges |-> d, changes |-> c] :
            d \in DocumentChangesOf, c \in ChangesOf}

NoChanges == [isArray |-> TRUE, items |-> <<>>]

DocNext ==
  \/ NeverRegistered(DocLang) /\ registerLanguage(DocLang, DocShape)
  \/ \E u \in {UriA, UriB}, v \in {1, 3} : openDocument(Canonical(u), DocLang, DocText, v)
  \/ \E v \in 1..3 : updateDocument(Canonical(UriA), v, NoChanges)
  \/ \E e \in WorkspaceEdits : applyWorkspaceEdit(e)

SpecDoc == Init /\ [][DocNext]_vars

----------------------------------------------------------------------------
(* Disposal: every host operation on a client that is being or has been     *)
(* disposed                                                                 *)

\* an adapter without initialize whose cleanup routines return promises
TeardownShape ==
  [handlers |-> DocSyncOps \cup {"getHover", "sendRequest", "sendNotification", "shutdown"},
   init |-> "none", registers |-> 0, hasDispose |-> TRUE, cleanup |-> "async",
   fails |-> "none"]

TeardownParams == Params(OneId(1, DocLang), NoUris)

TeardownEdit ==
  [isObject |-> TRUE,
   documentChanges |-> [defined |-> TRUE, isArray |-> TRUE,
                        items |-> <<TextDocumentEdit(UriA, <<InsertX>>)>>],
   changes |-> [isObject |-> FALSE, entries |-> <<>>]]

TeardownNext ==
  \/ NeverRegistered(DocLang) /\ registerLanguage(DocLang, TeardownShape)
  \/ unregisterLanguage(DocLang)
  \/ listLanguages
  \/ openDocument(Canonical(UriA), DocLang, DocText, 1)
  \/ updateDocument(Canonical(UriA), 2, NoChanges)
  \/ closeDocument(Canonical(UriA))
  \/ applyWorkspaceEdit(TeardownEdit)
  \/ forward("getHover", TeardownParams)
  \/ sendRequest(TeardownParams)
  \/ sendNotification(TeardownParams)
  \/ onDiagnostics(Canonical(UriA), 1)
  \/ onWorkspaceEvent("changed", 1)
  \/ onNotification("log", 1)
  \/ onError(1)
  \/ dispose
  \/ DisposeSettled

SpecTeardown == Init /\ [][TeardownNext]_vars

----------------------------------------------------------------------------
(* The event bus: subscriptions, publications of adapters, disposal        *)

\* Adapters that keep the context their initialize gets, to publish through
\* it.  The cleanup routines return promises; the initialize of language
\* "one" returns a plain value, that of language "two" a promise, which stays
\* pending or rejects.
BusShape(languageId) ==
  [handlers |-> {"shutdown"}, init |-> IF languageId = "one" THEN "sync" ELSE "async",
   registers |-> 0, hasDispose |-> TRUE, cleanup |-> "async", fails |-> "none"]

Listeners == {1} \cup ThrowingListeners

BusNext ==
  \/ \E l \in LangIds : NeverRegistered(l) /\ registerLanguage(l, BusShape(l))
  \/ \E r \in 1..Len(records) : InitializeRejected(r, "Error", NoCall)
  \/ \E l \in Listeners : onDiagnostics(Padded(UriA), l)
  \/ \E l \in Listeners : onWorkspaceEvent("changed", l)
  \/ \E l \in Listeners : onNotification("log", l)
  \/ \E l \in Listeners : onError(l)
  \/ \E s \in 1..Len(subscriptions) : unsubscribe(s)
  \/ \E r \in 1..Len(records), u \in {UriA, UriB} : publishDiagnostics(r, Canonical(u))
  \/ \E r \in 1..Len(records) : emitWorkspaceEvent(r, "changed")
  \/ \E r \in 1..Len(records) : notifyClient(r, "log")
  \/ dispose
  \/ DisposeSettled

SpecBus == Init /\ [][BusNext]_vars

----------------------------------------------------------------------------
(* Document sync with an adapter whose handlers fail                        *)

\* adapters whose document-sync handlers throw or reject, with and without an
\* initialize that returns a promise
FailingShapes ==
  {[handlers |-> DocSyncOps, init |-> i, registers |-> 0, hasDispose |-> FALSE,
    cleanup |-> "sync", fails |-> f] : i \in {"none", "async"}, f \in {"throw", "reject"}}

FailingNext ==
  \/ \E a \in FailingShapes : NeverRegistered(DocLang) /\ registerLanguage(DocLang, a)
  \/ \E r \in 1..Len(records) : InitializeResolved(r)
  \/ \E l \in Listeners : onError(l)
  \/ \E s \in 1..Len(subscriptions) : unsubscribe(s)
  \/ openDocument(Canonical(UriA), DocLang, DocText, 1)
  \/ \E v \in 2..3 : updateDocument(Canonical(UriA), v, NoChanges)
  \/ closeDocument(Canonical(UriA))
  \/ HandlerRejected

SpecFailing == Init /\ [][FailingNext]_vars

----------------------------------------------------------------------------
(* Feature requests to an adapter whose handlers fail                       *)

\* adapters without initialize whose getHover returns, throws or rejects
FeatureShapes ==
  {[handlers |-> {"getHover"}, init |-> "none", registers |-> 0, hasDispose |-> FALSE,
    cleanup |-> "sync", fails |-> f] : f \in {"none", "throw", "reject"}}

FeatureNext ==
  \/ \E l \in LangIds, a \in FeatureShapes : NeverRegistered(l) /\ registerLanguage(l, a)
  \/ \E l \in LangIds : unregisterLanguage(l)
  \/ \E l \in Listeners : onError(l)
  \/ \E s \in 1..Len(subscriptions) : unsubscribe(s)
  \/ \E l \in LangIds, h \in {"getHover", "formatRange"} :
       forward(h, Params(OneId(1, l), NoUris))

SpecFeature == Init /\ [][FeatureNext]_vars

----------------------------------------------------------------------------
(* Teardown of adapters whose cleanup routines fail                         *)

\* Adapters with a shutdown handler and a dispose whose cleanup routines
\* return, throw or reject; an initialize, if there is one, registers two
\* disposables.
CleanupShapes ==
  {[handlers |-> {"shutdown"}, init |-> i, registers |-> IF i = "none" THEN 0 ELSE 2,
    hasDispose |-> TRUE, cleanup |-> c, fails |-> "none"] :
     i \in {"none", "sync", "async"}, c \in {"sync", "throw", "reject"}}

CleanupNext ==
  \/ \E a \in CleanupShapes : NeverRegistered(DocLang) /\ registerLanguage(DocLang, a)
  \/ \E r \in 1..Len(records) : InitializeResolved(r)
  \/ \E r \in 1..Len(records) : InitializeRejected(r, "Error", NoCall)
  \/ unregisterLanguage(DocLang)
  \/ onError(1)
  \/ dispose
  \/ DisposeSettled
  \/ HandlerRejected

SpecCleanup == Init /\ [][CleanupNext]_vars

----------------------------------------------------------------------------
(* Server requests an adapter hands to the client                           *)

RequestListeners == Listeners \cup {3, 4}

RequestMethods == {"custom/ask", "client/registerCapability"}

RequestNext ==
  \/ NeverRegistered(DocLang) /\ registerLanguage(DocLang, BusShape("one"))
  \/ \E m \in RequestMethods, l \in RequestListeners : onNotification(m, l)
  \/ \E s \in 1..Len(subscriptions) : unsubscribe(s)
  \/ \E r \in 1..Len(records), m \in RequestMethods : handleServerRequest(r, m)
  \/ \E r \in 1..Len(records), m \in RequestMethods : notifyClient(r, m)
  \/ dispose
  \/ DisposeSettled

SpecRequest == Init /\ [][RequestNext]_vars

----------------------------------------------------------------------------
(* Documents as adapters of two languages see them through their contexts   *)

ContextUris == {Canonical(UriA), Padded(UriB), [form |-> "blank", uri |-> ""]}

ContextNext ==
  \/ \E l \in LangIds : NeverRegistered(l) /\ registerLanguage(l, BusShape("one"))
  \/ \E u \in {UriA, UriB}, l \in LangIds : openDocument(Canonical(u), l, DocText, 1)
  \/ closeDocument(Canonical(UriA))
  \/ \E r \in 1..Len(records), raw \in ContextUris : getDocument(r, raw)
  \/ \E r \in 1..Len(records) : listDocuments(r)
  \/ ChangeReturned

SpecContext == Init /\ [][ContextNext]_vars

----------------------------------------------------------------------------
(* The frame codec: payloads with and without multi-byte characters, framed *)
(* by the peer and delivered in fragments of any length                     *)

CodecTexts == UNION {[1..n -> TextChars] : n \in 0..3}

CodecNext ==
  \/ \E t \in CodecTexts : PeerWrites(stringify("notify", t))
  \/ \E k \in 1..Len(conn.incoming) : Receive(k)

SpecCodec == Init /\ [][CodecNext]_vars

----------------------------------------------------------------------------
(* Requests, responses, timeouts and the end of a connection                *)

PeerMessages == {ResultOf[i] : i \in 1..MaxRequests} \cup {"error:0", "notify"}

ConnectionNext ==
  \/ \E t \in {0, 1} :
       connSendRequest(IF conn.nextId = 0 THEN "initialize" ELSE "shutdown", t)
  \/ connSendNotification("initialized")
  \/ connSendResponse(9)
  \/ connSendErrorResponse(9)
  \/ \E sym \in PeerMessages : PeerWrites(stringify(sym, <<>>))
  \/ Receive(Len(conn.incoming))
  \/ \E id \in 0..(MaxRequests - 1) : TimerFires(id)
  \/ connDispose
  \/ StreamClosed
  \/ StreamError

SpecConnection == Init /\ [][ConnectionNext]_vars

(* SpecTimers: the connection of SpecConnection on an event loop that runs  *)
(* the callback of every timer that stays armed                             *)
SpecTimers ==
  /\ Init /\ [][ConnectionNext]_vars
  /\ \A id \in 0..(MaxRequests - 1) : WF_vars(TimerFires(id))

(* SpecClassify: a connection with requests pending or not, and a peer that *)
(* sends every kind of message                                              *)
ClassifyNext ==
  \/ \E t \in {0, 1} : connSendRequest("initialize", t)
  \/ \E sym \in MessageSymbols : PeerWrites(stringify(sym, <<>>))
  \/ PeerWrites(<<"{", "}">>)
  \/ Receive(Len(conn.incoming))
  \/ \E id \in 0..(MaxRequests - 1) : TimerFires(id)

SpecClassify == Init /\ [][ClassifyNext]_vars

(* SpecBackend: a real-backend adapter, its server processes and the host   *)
(* calling its handlers                                                     *)
BackendNext ==
  \/ \E kind \in AdapterKinds : createAdapter(kind)
  \/ \E handler \in DOMAIN NotificationOf : HostNotifies(handler, <<>>)
  \/ HostRequests
  \/ \E id \in 0..MaxBackendRequests, ok \in BOOLEAN : ServerResponds(id, ok)
  \/ \E k \in 1..MaxRuns : InitContinues(k)
  \/ \E k \in 1..MaxRuns : InitCatches(k)
  \/ ProcessExits
  \/ \E p \in 1..MaxProcesses : ExitEvent(p)

SpecBackend == Init /\ [][BackendNext]_vars

(* SpecSyncOptions: a real-backend adapter whose server answers initialize  *)
(* with text-document-sync options, and the host's document calls           *)
SyncOptionsNext ==
  \/ \E kind \in AdapterKinds : createAdapter(kind)
  \/ \E handler \in {"openDocument", "updateDocument", "closeDocument"},
        changes \in ChangeLists :
          /\ handler # "updateDocument" => changes = <<>>
          /\ HostNotifies(handler, changes)
  \/ \E id \in 0..1, sync \in SyncOptions : ServerInitializes(id, sync)
  \/ InitContinues(1)

SpecSyncOptions == Init /\ [][SyncOptionsNext]_vars

(* SpecServerRequests: a real-backend adapter and a server that sends       *)
(* requests of its own.  The continuations of the adapter's async functions *)
(* run whenever they can.                                                   *)
ServerRequestsNext ==
  \/ \E kind \in AdapterKinds : createAdapter(kind)
  \/ adapterInitialize
  \/ HostNotifies("openDocument", <<>>)
  \/ \E id \in 0..1, ok \in BOOLEAN : ServerResponds(id, ok)
  \/ InitContinues(1)
  \/ InitCatches(1)
  \/ \E id \in ServerRequestIds, method \in ServerRequestMethods : ServerRequests(id, method)

(* SpecShutdown: the client tears an initialized real-backend adapter down  *)
ShutdownNext ==
  \/ \E kind \in AdapterKinds : createAdapter(kind)
  \/ adapterInitialize
  \/ \E id \in 0..2, ok \in BOOLEAN : ServerResponds(id, ok)
  \/ InitContinues(1)
  \/ InitCatches(1)
  \/ HostRequests
  \/ ClientTeardown
  \/ ShutdownContinues
  \/ ShutdownTimerFires
  \/ DisposeContinues
  \/ ProcessExits
  \/ \E p \in 1..MaxProcesses : ExitEvent(p)

SpecShutdown == Init /\ [][ShutdownNext]_vars

SpecServerRequests ==
  /\ Init
  /\ [][ServerRequestsNext]_vars
  /\ WF_vars(InitContinues(1))
  /\ WF_vars(InitCatches(1))

----------------------------------------------------------------------------
(* Claims *)

Registered(r) ==
  /\ records[r].languageId \in DOMAIN languages
  /\ languages[records[r].languageId] = r

\* the calls of `ops` the adapter of record r has a handler for
Handled(r, ops) == SelectSeq(ops, LAMBDA item : item.operation \in records[r].handlers)

\* C1: while an adapter's initialize promise is pending none of its
\* document-sync handlers has been invoked, and once it has resolved (the
\* adapter still registered) the handlers have been invoked with exactly the
\* document calls the host issued for it, in the order issued, each once.
C1_QueuedSyncDeliveredInOrder ==
  \A r \in 1..Len(records) :
    /\ records[r].promise = "pending" => handlerCalls[r] = <<>>
    /\ (records[r].promise = "settled" /\ settled[r] = "returned" /\ Registered(r))
         => handlerCalls[r] = Handled(r, issuedOps[r])

\* open, update, update were queued and have just been flushed
C1_Witness ==
  /\ result.op = "initializeResolved"
  /\ Len(handlerCalls[result.rec]) = 3
  /\ handlerCalls[result.rec][1].operation = "openDocument"
  /\ handlerCalls[result.rec][2].operation = "updateDocument"
  /\ handlerCalls[result.rec][2].payload.version = 2
  /\ handlerCalls[result.rec][3].operation = "updateDocument"
  /\ handlerCalls[result.rec][3].payload.version = 3

States == {"registering", "initializing", "ready", "failed", "disposed"}

AllowedTransitions ==
  {<<"registering", "ready">>, <<"registering", "initializing">>,
   <<"initializing", "ready">>, <<"initializing", "failed">>}
    \cup {<<st, "disposed">> : st \in States \ {"disposed"}}

\* C2: every change of a record's state is registering -> ready, registering
\* -> initializing, initializing -> ready, initializing -> failed or
\* non-disposed -> disposed; a disposed record never changes state again.
C2_StateTransitions ==
  [][\A r \in 1..Len(records) :
       records'[r].state # records[r].state
         => <<records[r].state, records'[r].state>> \in AllowedTransitions]_vars

\* C3: once an adapter's initialize has failed, by a synchronous throw or by
\* a rejection, the record is out of the registry, its disposables and its
\* shutdown and dispose handlers have run, and registerLanguage has failed.
C3_InitFailureCleansUp ==
  \A r \in 1..Len(records) :
    settled[r] = "threw"
      => /\ ~Registered(r)
         /\ records[r].disposables = 0
         /\ "shutdown" \in records[r].handlers => cleanupRuns[r].shutdown >= 1
         /\ records[r].hasDispose => cleanupRuns[r].dispose >= 1

\* the <<languageId, operation>> pairs of the events in `events`
Reported(events) ==
  [i \in 1..Len(events) |-> <<events[i].languageId, events[i].operation>>]

\* C4: when initialization fails, whatever the rejection value, every queued
\* document-sync operation is reported once to the error listeners with the
\* adapter's languageId and the operation's name, in queue order, and none of
\* them is delivered to the adapter's handlers.
C4_QueuedOpsReportedOnFailure ==
  [][\A r \in 1..Len(records) :
       (records[r].promise = "pending" /\ settled'[r] = "threw")
         => LET queue == records[r].operationQueue
                new == SubSeq(errorEvents', Len(errorEvents) + 1, Len(errorEvents'))
                sync == SelectSeq(new, LAMBDA e : e.operation \in DocSyncOps)
            IN  /\ handlerCalls'[r] = handlerCalls[r]
                /\ Len(errorListeners) > 0
                     => Reported(sync) =
                          [i \in 1..Len(queue) |->
                             <<records[r].languageId, queue[i].operation>>]]_vars

RoutedOps == {"forward", "sendRequest", "sendNotification"}

\* C5: a routed call invokes the adapter's handler only if the record it
\* resolved to is ready; for a record in another state it fails without
\* invoking a handler: LanguageFailed for failed, UnknownLanguage for
\* disposed, LanguageNotReady for registering and initializing.
C5_ReadinessGate ==
  (result.op \in RoutedOps /\ result.rec # 0)
    => LET state == records[result.rec].state IN
       /\ result.invoked => state = "ready"
       /\ state # "ready"
            => /\ ~result.invoked
               /\ result.code = CASE state = "failed" -> "LANGUAGE_FAILED"
                                  [] state = "disposed" -> "UNKNOWN_LANGUAGE"
                                  [] OTHER -> "LANGUAGE_NOT_READY"

\* an error listener asks for a hover while the failed record is still routed to
C5_Witness ==
  /\ result.op = "forward"
  /\ result.rec # 0
  /\ result.code = "LANGUAGE_FAILED"
  /\ records[result.rec].state = "failed"

C5_WitnessNotReady ==
  /\ result.op = "sendRequest"
  /\ result.rec # 0
  /\ result.code = "LANGUAGE_NOT_READY"

C5_WitnessInvoked == result.op = "sendNotification" /\ result.invoked

\* the call in `result` came to nothing in routing, with error `code`
RoutingFails(code) == result.rec = 0 /\ result.code = code /\ ~result.invoked

\* the call in `result` was routed to the adapter registered as languageId
RoutedTo(languageId) ==
  /\ languageId \in result.registered
  /\ result.rec = languages[languageId]

NoCandidate(params) ==
  /\ params.languageIds = NoIds
  /\ \A i \in Slots : tryNormalizeUri(params.uris[i]) = ""

\* C6: with two or more adapters registered, a sendRequest or
\* sendNotification whose params carry neither a languageId nor a document
\* URI fails with LanguageNotResolved and invokes no handler.
C6_AmbiguousRoutingFails ==
  (/\ result.op \in {"sendRequest", "sendNotification"}
   /\ result.code # "CLIENT_DISPOSED"
   /\ Cardinality(result.registered) >= 2
   /\ NoCandidate(result.params))
    => RoutingFails("LANGUAGE_NOT_RESOLVED")

C6_Witness ==
  /\ result.op = "sendNotification"
  /\ Cardinality(result.registered) = 2
  /\ result.params = Params(NoIds, NoUris)
  /\ UriA \in DOMAIN documents
  /\ result.code = "LANGUAGE_NOT_RESOLVED"

FirstSlot(present) == CHOOSE i \in present : \A j \in present : i <= j

Sole(registered) == CHOOSE l \in registered : TRUE

\* steps (1), (4) and (5): the sole registered adapter, or LanguageNotResolved
FallsBack ==
  IF Cardinality(result.registered) = 1 THEN RoutedTo(Sole(result.registered))
  ELSE RoutingFails("LANGUAGE_NOT_RESOLVED")

\* step (2), the languageId candidate id deciding
IdDecides(id) ==
  IF id \in result.registered THEN RoutedTo(id) ELSE RoutingFails("UNKNOWN_LANGUAGE")

\* every candidate of params is absent or a non-empty languageId or a uri
PlainCandidates(params) ==
  /\ \A i \in Slots : params.languageIds[i] # ""
  /\ \A i \in Slots : params.uris[i] = AbsentUri \/ tryNormalizeUri(params.uris[i]) # ""

\* C7 as stated: (1) non-object params go to the sole adapter or fail with
\* LanguageNotResolved; (2) the first present languageId candidate decides,
\* UnknownLanguage if unregistered, also when a uri is present; (3) otherwise
\* the first uri candidate decides, DocumentNotOpen if the document is not
\* open and otherwise the adapter owning the document; (4) otherwise the sole
\* adapter; (5) otherwise LanguageNotResolved.
C7_RoutingProcedureAsStated ==
  (/\ result.op \in RoutedOps
   /\ result.code # "CLIENT_DISPOSED"
   /\ PlainCandidates(result.params))
    => LET params == result.params
           ids == {i \in Slots : params.languageIds[i] # Absent}
           uris == {i \in Slots : params.uris[i] # AbsentUri}
       IN  IF ~params.isObject THEN FallsBack
           ELSE IF ids # {} THEN IdDecides(params.languageIds[FirstSlot(ids)])
           ELSE IF uris # {}
           THEN LET uri == normalizeUri(params.uris[FirstSlot(uris)]).uri IN
                IF uri \notin DOMAIN documents THEN RoutingFails("DOCUMENT_NOT_OPEN")
                ELSE RoutedTo(documents[uri].languageId)
           ELSE FallsBack

\* C7, amended: as stated, except that in (2) the first languageId candidate
\* that is a string decides only if it is not empty, an empty one sending the
\* call on to (3) whatever the later languageId candidates are; that in (3)
\* the first uri candidate that normalises decides; and that (3) fails with
\* UnknownLanguage when the open document's language is no longer registered.
C7_RoutingProcedure ==
  (result.op \in RoutedOps /\ result.code # "CLIENT_DISPOSED")
    => LET params == result.params
           ids == {i \in Slots : params.languageIds[i] # Absent}
           uris == {i \in Slots : tryNormalizeUri(params.uris[i]) # ""}
       IN  IF ~params.isObject THEN FallsBack
           ELSE IF ids # {} /\ params.languageIds[FirstSlot(ids)] # ""
           THEN IdDecides(params.languageIds[FirstSlot(ids)])
           ELSE IF uris # {}
           THEN LET uri == normalizeUri(params.uris[FirstSlot(uris)]).uri IN
                IF uri \notin DOMAIN documents THEN RoutingFails("DOCUMENT_NOT_OPEN")
                ELSE IF documents[uri].languageId \notin result.registered
                THEN RoutingFails("UNKNOWN_LANGUAGE")
                ELSE RoutedTo(documents[uri].languageId)
           ELSE FallsBack

\* a languageId wins over the uri of a document another adapter owns
C7_Witness ==
  /\ result.op = "sendRequest"
  /\ result.params = Params(OneId(3, "one"), OneUri(3, Canonical(UriB)))
  /\ UriB \in DOMAIN documents
  /\ documents[UriB].languageId = "two"
  /\ result.registered = LangIds
  /\ RoutedTo("one")
  /\ result.invoked

\* the document's language was unregistered while the document stayed open
C7_WitnessOrphan ==
  /\ result.op = "sendRequest"
  /\ result.params = Params(NoIds, OneUri(2, Canonical(UriA)))
  /\ UriA \in DOMAIN documents
  /\ result.registered = {"two"}
  /\ RoutingFails("UNKNOWN_LANGUAGE")

\* an empty languageId hides the languageId candidates after it
C7_WitnessEmptyId ==
  /\ result.op = "sendRequest"
  /\ result.params = Params(TwoIds(1, "", "one"), NoUris)
  /\ result.registered = LangIds
  /\ RoutingFails("LANGUAGE_NOT_RESOLVED")

\* the step is a call of the document operation `op`
DocStep(op) == docOps' = docOps + 1 /\ result'.op = op

\* C8: updateDocument on an open document succeeds only with a version
\* strictly greater than the stored one and fails with InvalidVersion
\* otherwise; after a successful update the stored version is the supplied
\* one; and no updateDocument or applyWorkspaceEdit lowers the stored version
\* of an open document.
C8_VersionMonotonic ==
  [][/\ DocStep("updateDocument") /\ ~disposed
          /\ normalizeUri(result'.args.uri).err = ""
          /\ normalizeUri(result'.args.uri).uri \in DOMAIN documents
        => LET uri == normalizeUri(result'.args.uri).uri
               stored == documents[uri].version
               supplied == result'.args.version
           IN  /\ result'.code = ""
                    => supplied > stored /\ documents'[uri].version = supplied
               /\ supplied <= stored => result'.code = "INVALID_VERSION"
     /\ DocStep("updateDocument") \/ DocStep("applyWorkspaceEdit")
        => \A uri \in DOMAIN documents \cap DOMAIN documents' :
             documents'[uri].version >= documents[uri].version]_vars

\* the updateDocument call an adapter gets for the update in result'
UpdateCall(before, after, items) ==
  [operation |-> "updateDocument",
   payload |-> [uri |-> before.uri, languageId |-> before.languageId,
                version |-> result'.args.version, text |-> after.text,
                changes |-> IF items = <<>> THEN <<FullTextChange(before.text)>>
                            ELSE items]]

\* C9: updateDocument with an empty change list and a greater version
\* succeeds, keeps the text, stores the version and sends the owning adapter
\* one updateDocument call with a single full-text change of the current
\* text; with a non-empty list the changes are applied in order, each to the
\* result of the one before, and the adapter gets one call with the supplied
\* changes, the resulting text and the new version.  The call is delivered to
\* a ready adapter and queued for an initializing one.
C9_UpdateDocument ==
  [][DocStep("updateDocument") /\ ~disposed
       /\ normalizeUri(result'.args.uri).err = ""
       /\ normalizeUri(result'.args.uri).uri \in DOMAIN documents
     => LET uri == normalizeUri(result'.args.uri).uri
            before == documents[uri]
            after == documents'[uri]
            changes == result'.args.changes
            items == changes.items
            r == RecordOf(before.languageId)
            call == UpdateCall(before, after, items)
        IN  /\ (changes.isArray /\ items = <<>> /\ result'.args.version > before.version)
                 => result'.code = ""
            /\ result'.code = ""
                 => /\ after.version = result'.args.version
                    /\ Len(items) = 0 => after.text = before.text
                    /\ Len(items) = 1
                         => after.text = applyContentChange(before.text, items[1]).text
                    /\ Len(items) = 2
                         => after.text =
                              applyContentChange(
                                applyContentChange(before.text, items[1]).text,
                                items[2]).text
                    /\ (r # 0 /\ "updateDocument" \in records[r].handlers
                           /\ records[r].state = "ready")
                         => handlerCalls'[r] = Append(handlerCalls[r], call)
                    /\ (r # 0 /\ "updateDocument" \in records[r].handlers
                           /\ records[r].state = "initializing")
                         => /\ handlerCalls'[r] = handlerCalls[r]
                            /\ records'[r].operationQueue =
                                 Append(records[r].operationQueue, call)]_vars

\* an empty update of a document whose text an earlier update had set to b
C9_Witness ==
  /\ result.op = "updateDocument"
  /\ result.code = ""
  /\ result.args.changes.items = <<>>
  /\ result.value.text = <<"b">>
  /\ result.value.version = 3
  /\ \E r \in 1..Len(records) :
       /\ records[r].state = "ready"
       /\ Len(handlerCalls[r]) = 3
       /\ handlerCalls[r][3].payload.changes = <<FullTextChange(<<"b">>)>>
       /\ handlerCalls[r][3].payload.version = 3

\* two ranged changes, the second applied to what the first left
C9_WitnessOrdered ==
  /\ result.op = "updateDocument"
  /\ result.code = ""
  /\ Len(result.args.changes.items) = 2
  /\ result.value.text = <<"y", "x", "a">>

\* C10: applyWorkspaceEdit returns applied = true exactly when failures is
\* empty; otherwise failureReason is the reason of the first recorded failure
\* and failedChange the zero-based place of the first failed change, counting
\* the documentChanges entries first and the entries of changes after them.
C10_EditResult ==
  (result.op = "applyWorkspaceEdit" /\ result.code = "")
    => /\ result.applied <=> result.failures = <<>>
       /\ result.failures = <<>>
            => result.failureReason = <<>> /\ result.failedChange = <<>>
       /\ result.failures # <<>>
            => /\ result.failureReason = <<result.failures[1].reason>>
               /\ result.failedChange = <<result.failures[1].at>>

\* two documentChanges entries applied, then an entry of changes for a
\* document that is not open
C10_Witness ==
  /\ result.op = "applyWorkspaceEdit"
  /\ result.code = ""
  /\ ~result.applied
  /\ Len(result.failures) = 1
  /\ result.failureReason = <<"Document not open">>
  /\ result.failedChange = <<2>>
  /\ UriA \in DOMAIN documents
  /\ documents[UriA].text = <<"a", "x", "x", "b">>

\* the single documentChanges entry for a document that is not open
C10_WitnessExample ==
  /\ result.op = "applyWorkspaceEdit"
  /\ result.code = ""
  /\ ~result.applied
  /\ Len(result.failures) = 1
  /\ result.failureReason = <<"Document not open">>
  /\ result.failedChange = <<0>>

\* a later failure at another place than the first
C10_WitnessTwoFailures ==
  /\ result.op = "applyWorkspaceEdit"
  /\ result.code = ""
  /\ Len(result.failures) = 2
  /\ result.failures[1].at = 0
  /\ result.failures[2].at = 2
  /\ result.failedChange = <<0>>

\* result is what an applyWorkspaceEdit call that got past its argument
\* check left: a returned result object (code = "") or the error it threw
EditCall == result.op = "applyWorkspaceEdit" /\ "args" \in DOMAIN result

\* the number of changes the documentChanges list of the edit holds
ListedChanges(edit) ==
  IF edit.documentChanges.isArray THEN Len(edit.documentChanges.items) ELSE 0

\* the failures recorded for entries of the changes map
EntryFailures ==
  {i \in 1..Len(result.failures) : result.failures[i].at >= ListedChanges(result.args)}

\* C11: applyWorkspaceEdit never throws to the host for an error raised
\* while applying the text edits of a changes-map entry, whatever else the
\* edit holds: the error is recorded as a failure for the entry's URI and the
\* call returns a result object.
C11_ChangesErrorsNotThrown ==
  (EditCall /\ EntryFailures # {}) => result.code = ""

\* the step is an applyWorkspaceEdit call that returned a result object
EditReturns ==
  /\ DocStep("applyWorkspaceEdit")
  /\ "args" \in DOMAIN result'
  /\ result'.code = ""

\* C12: applyWorkspaceEdit applies an edit atomically from the host's
\* perspective: when the call reports applied = false, no open document's
\* text, version or URI has been changed by it and no adapter has been sent
\* a document-sync call for it.
C12_AtomicEdit ==
  [][(EditReturns /\ ~result'.applied)
       => /\ documents' = documents
          /\ issuedOps' = issuedOps
          /\ handlerCalls' = handlerCalls]_vars

\* the text-document-edits of an edit in the order they are processed: the
\* documentChanges list, then the entries of the changes map
TextDocumentEditsOf(edit) ==
  (IF edit.documentChanges.isArray THEN edit.documentChanges.items ELSE <<>>)
    \o (IF edit.changes.isObject
        THEN [i \in 1..Len(edit.changes.entries) |-> EntryEdit(edit.changes.entries[i])]
        ELSE <<>>)

ValidRange(range) ==
  /\ range.start.line >= 0 /\ range.start.character >= 0
  /\ range.end.line >= 0 /\ range.end.character >= 0

\* a text-document-edit for a document of `docs` whose edits all have a valid
\* range
WellFormedEdit(docs, change) ==
  /\ change.kind = "edit"
  /\ normalizeUri(change.uri).err = ""
  /\ normalizeUri(change.uri).uri \in DOMAIN docs
  /\ change.edits.isArray
  /\ \A i \in 1..Len(change.edits.items) :
       change.edits.items[i].hasRange /\ ValidRange(change.edits.items[i].range)

\* the changes the statement gives the updateDocument call of a
\* text-document-edit that leaves `text`
StatedChanges(items, text) ==
  IF items = <<>> THEN <<FullTextChange(text)>>
  ELSE [i \in 1..Len(items) |->
          [hasText |-> TRUE, text |-> items[i].newText,
           hasRange |-> TRUE, range |-> items[i].range]]

\* the document a text-document-edit makes of `document`, as stated
StatedDocument(document, items) ==
  [document EXCEPT
     !.text = applyTextEdits(@, [i \in 1..Len(items) |->
                                   [range |-> items[i].range,
                                    newText |-> items[i].newText]]).text,
     !.version = @ + 1]

StatedCall(updated, items) ==
  [operation |-> "updateDocument",
   payload |-> [uri |-> updated.uri, languageId |-> updated.languageId,
                version |-> updated.version, text |-> updated.text,
                changes |-> StatedChanges(items, updated.text)]]

RECURSIVE StatedEdits(_, _, _)
\* the documents and the updateDocument calls the statement gives for the
\* text-document-edits `changes`, one after the other
StatedEdits(docs, calls, changes) ==
  IF changes = <<>> THEN [docs |-> docs, calls |-> calls]
  ELSE StatedEdits(
         Put(docs, normalizeUri(Head(changes).uri).uri,
             StatedDocument(docs[normalizeUri(Head(changes).uri).uri],
                            Head(changes).edits.items)),
         Append(calls,
                StatedCall(StatedDocument(docs[normalizeUri(Head(changes).uri).uri],
                                          Head(changes).edits.items),
                           Head(changes).edits.items)),
         Tail(changes))

\* the step is an applyWorkspaceEdit call made of text-document-edits for
\* open documents, each edit with a valid range, and takes them as `stated`
\* has them
TextEditsAsStated(stated) ==
  /\ documents' = stated.docs
  /\ \A r \in 1..Len(records) :
       (Registered(r) /\ records[r].state = "ready"
          /\ "updateDocument" \in records[r].handlers)
         => handlerCalls'[r] =
              handlerCalls[r]
                \o SelectSeq(stated.calls,
                             LAMBDA call : call.payload.languageId = records[r].languageId)

\* C13: for every text-document-edit of a workspace edit that targets an
\* open document and whose edits all have a valid range, an empty edit list
\* included, the document's version goes up by exactly one and the owning
\* adapter gets exactly one updateDocument call with the new text and
\* version, whose changes are the edit list (range, text = newText) or a
\* single full-text change when the edit list is empty.
C13_TextDocumentEdit ==
  [][(/\ DocStep("applyWorkspaceEdit")
      /\ "args" \in DOMAIN result'
      /\ \A i \in 1..Len(TextDocumentEditsOf(result'.args)) :
           WellFormedEdit(documents, TextDocumentEditsOf(result'.args)[i]))
       => TextEditsAsStated(StatedEdits(documents, <<>>,
                                        TextDocumentEditsOf(result'.args)))]_vars

\* the step is an applyWorkspaceEdit call that returned applied = true for an
\* edit without rename changes
EditApplied ==
  /\ EditReturns
  /\ result'.applied
  /\ \A i \in 1..Len(TextDocumentEditsOf(result'.args)) :
       TextDocumentEditsOf(result'.args)[i].kind # "rename"

\* the text-document-edits of an edit that have edits to apply
EffectiveEdits(edit) ==
  SelectSeq(TextDocumentEditsOf(edit),
            LAMBDA change : change.kind = "edit" /\ change.edits.isArray
                              /\ change.edits.items # <<>>)

\* how many of `changes` are for the document at uri
Targeting(changes, uri) ==
  Cardinality({i \in 1..Len(changes) : normalizeUri(changes[i].uri).uri = uri})

C14_WitnessBothWays ==
  /\ EditCall /\ result.code = "" /\ result.applied
  /\ docOps = 2
  /\ result.args.documentChanges.items = <<TextDocumentEdit(UriB, <<InsertX>>)>>
  /\ result.args.changes.entries = <<ChangesEntry(Padded(UriB), <<InsertX>>)>>
  /\ documents[UriB].version = 3

\* the operations of the host other than dispose
HostOperations ==
  {"registerLanguage", "unregisterLanguage", "listLanguages", "openDocument",
   "updateDocument", "closeDocument", "forward", "sendRequest", "sendNotification",
   "onDiagnostics", "onWorkspaceEvent", "onNotification", "onError",
   "applyWorkspaceEdit"}

\* C15: once dispose has been called, also while its promise has not settled,
\* every other operation of the host throws ClientDisposed and changes
\* neither the document store, nor the registry, nor any listener table.
C15_DisposedClientThrows ==
  [][(disposed /\ result'.op \in HostOperations)
       => /\ result'.code = "CLIENT_DISPOSED"
          /\ UNCHANGED <<documents, languages, records, diagnosticListeners,
                         workspaceListeners, notificationListeners, errorListeners,
                         subscriptions>>]_vars

\* applyWorkspaceEdit refused while dispose waits for the cleanup tasks, the
\* document and a listener still in place
C15_Witness ==
  /\ disposed /\ disposing
  /\ result.op = "applyWorkspaceEdit"
  /\ result.code = "CLIENT_DISPOSED"
  /\ UriA \in DOMAIN documents
  /\ Len(errorListeners) = 1

\* onDiagnostics refused after dispose has completed
C15_WitnessCompleted ==
  /\ disposed /\ ~disposing
  /\ result.op = "onDiagnostics"
  /\ result.code = "CLIENT_DISPOSED"

\* what an adapter does through its context
Publications == {"publishDiagnostics", "emitWorkspaceEvent", "notifyClient"}

\* the subscriptions that have not been cancelled
OpenSubscriptions(channel, key) ==
  {i \in 1..Len(subscriptions) :
     /\ subscriptions[i].channel = channel
     /\ subscriptions[i].key = key
     /\ ~subscriptions[i].closed}

\* C16: a dispose call on a client that was disposed before does not throw,
\* runs no adapter cleanup and changes nothing; and once dispose has
\* completed no diagnostics, workspace-event, notification or error listener
\* is invoked any more, whether an adapter publishes through its context or a
\* pending initialize settles.
C16_IdempotentDispose ==
  [][/\ (disposed /\ result'.op = "dispose")
          => /\ result'.code = ""
             /\ UNCHANGED <<disposed, disposing, bus, languages, records, documents,
                            errorListeners, handlerCalls, issuedOps, cleanupRuns,
                            errorEvents, rejections, settled>>
     /\ (disposed /\ ~disposing)
          => /\ result'.op \in Publications => result'.invoked = <<>>
             /\ errorEvents' = errorEvents]_vars

\* after dispose has completed an adapter publishes diagnostics for a URI
\* that a listener was subscribed to and never unsubscribed from
C16_Witness ==
  /\ disposed /\ ~disposing
  /\ result.op = "publishDiagnostics"
  /\ result.key = UriA
  /\ result.invoked = <<>>
  /\ OpenSubscriptions("onDiagnostics", UriA) # {}

\* a pending initialize rejects after dispose has completed, an error listener
\* never having been unsubscribed
C16_WitnessLateRejection ==
  /\ disposed /\ ~disposing
  /\ result.op = "initializeRejected"
  /\ errorEvents = <<>>
  /\ OpenSubscriptions("onError", "") # {}

\* the subscribing operation of the channel an adapter publishes on with op
ChannelOf(op) ==
  CASE op = "publishDiagnostics" -> "onDiagnostics"
    [] op = "emitWorkspaceEvent" -> "onWorkspaceEvent"
    [] op = "notifyClient" -> "onNotification"

\* the listeners of the subscriptions under key that have not been cancelled
OpenListeners(channel, key) ==
  {subscriptions[i].listener : i \in OpenSubscriptions(channel, key)}

\* the listeners the step delivered an adapter-error event to
ErrorListenersInvoked ==
  {errorEvents'[i].listener : i \in (Len(errorEvents) + 1)..Len(errorEvents')}

\* dispose has completed
Disposed == disposed /\ ~disposing

\* C17: a publication invokes the listener of a subscription exactly when
\* the subscription has not been cancelled, whatever other subscriptions on
\* the same or another key have been cancelled; cancelling a subscription
\* again, or after the client was disposed, does not throw and has no effect.
\* Publications during which a listener throws are left aside.
C17_SubscriptionIsolation ==
  [][/\ (~Disposed /\ result'.op \in Publications /\ result'.code = "")
          => Range(result'.invoked) = OpenListeners(ChannelOf(result'.op), result'.key)
     /\ (~Disposed /\ Len(errorEvents') > Len(errorEvents))
          => ErrorListenersInvoked = OpenListeners("onError", "")
     /\ result'.op = "unsubscribe"
          => /\ result'.code = ""
             /\ (subscriptions' = subscriptions \/ Disposed)
                  => UNCHANGED <<diagnosticListeners, workspaceListeners,
                                notificationListeners, errorListeners>>]_vars

\* the listener table an adapter publishes to with op
TableOf(op) ==
  CASE op = "publishDiagnostics" -> diagnosticListeners
    [] op = "emitWorkspaceEvent" -> workspaceListeners
    [] op = "notifyClient" -> notificationListeners

\* the codes of a publication refused for its key
RefusedKey == {"INVALID_URI", "INVALID_EVENT_KIND"}

\* C18: when a listener throws during the fan-out of a diagnostics
\* publication, a workspace event, a notification or an adapter-error event,
\* the exception is caught: every listener registered for the publication is
\* invoked all the same, nothing propagates to the publishing adapter, and the
\* listeners of the other channels are left as they are.
C18_ListenerErrorsCaught ==
  [][/\ (result'.op \in Publications /\ result'.code \notin RefusedKey)
          => /\ result'.invoked = ListenersAt(TableOf(result'.op), result'.key)
             /\ result'.code = ""
             /\ UNCHANGED <<diagnosticListeners, workspaceListeners,
                            notificationListeners, errorListeners>>
     /\ Len(errorEvents') > Len(errorEvents)
          => ErrorListenersInvoked = Range(errorListeners)]_vars

\* C19: a publication an adapter makes through its context is delivered
\* within the call, exactly once, to every listener subscribed at that moment
\* to the normalized URI, kind or method it is made for, with the languageId
\* of the publishing adapter, and to no listener subscribed under another key
\* or on another channel.
C19_PublicationDelivered ==
  [][(result'.op \in Publications /\ result'.code \notin RefusedKey)
       => /\ Range(result'.invoked) = Range(ListenersAt(TableOf(result'.op), result'.key))
          /\ Len(result'.invoked) = Cardinality(Range(result'.invoked))
          /\ result'.languageId = records[result'.rec].languageId
          /\ ~Disposed
               => Range(result'.invoked)
                    = OpenListeners(ChannelOf(result'.op), result'.key)]_vars

\* the handler invocations of record r the step has made
NewCalls(r) == SubSeq(handlerCalls'[r], Len(handlerCalls[r]) + 1, Len(handlerCalls'[r]))

\* one adapter-error event for each of `failed`, each delivered to every error
\* listener before the next
ErrorEventsFor(failed, languageId) ==
  [k \in 1..(Len(failed) * Len(errorListeners)) |->
     [listener |-> errorListeners[((k - 1) % Len(errorListeners)) + 1],
      languageId |-> languageId,
      operation |-> failed[((k - 1) \div Len(errorListeners)) + 1].operation,
      error |-> HandlerError]]

\* the store holds what the document call in `call` says
StoreUpdated(call) ==
  CASE call.operation = "closeDocument" -> call.payload.uri \notin DOMAIN documents'
    [] OTHER -> /\ call.payload.uri \in DOMAIN documents'
                /\ documents'[call.payload.uri].text = call.payload.text
                /\ documents'[call.payload.uri].version = call.payload.version

\* C20: when an adapter's openDocument, updateDocument or closeDocument
\* handler throws or returns a promise that rejects, the host's document call
\* returns normally with the store updated, and exactly one adapter-error
\* event with the adapter's languageId, the operation and the error is
\* delivered to every error listener: within the call for a throw, when the
\* promise rejects for a rejection.
C20_HandlerFailuresReported ==
  [][/\ \A r \in 1..Len(records) :
          NewCalls(r) # <<>>
            => /\ result'.code = ""
               /\ result'.op \in DocSyncOps => StoreUpdated(NewCalls(r)[1])
               /\ records[r].fails = "throw"
                    => /\ errorEvents' =
                            errorEvents \o ErrorEventsFor(NewCalls(r), records[r].languageId)
                       /\ rejections' = rejections
               /\ records[r].fails = "reject"
                    => /\ errorEvents' = errorEvents
                       /\ rejections' =
                            rejections
                              \o [i \in 1..Len(NewCalls(r)) |->
                                    [rec |-> r, operation |-> NewCalls(r)[i].operation,
                                     error |-> HandlerError]]
     /\ result'.op = "handlerRejected"
          => /\ rejections' = Tail(rejections)
             /\ errorEvents' =
                  errorEvents
                    \o ErrorEventsFor(<<Head(rejections)>>,
                                      records[Head(rejections).rec].languageId)]_vars

\* updateDocument returned although the handler threw, and both error
\* listeners, the first of which throws, have the event
C20_Witness ==
  /\ result.op = "updateDocument"
  /\ result.code = ""
  /\ records[1].fails = "throw"
  /\ errorListeners = <<2, 1>>
  /\ Len(errorEvents) >= 2
  /\ errorEvents[Len(errorEvents) - 1] =
       [listener |-> 2, languageId |-> DocLang, operation |-> "updateDocument",
        error |-> HandlerError]
  /\ errorEvents[Len(errorEvents)] =
       [listener |-> 1, languageId |-> DocLang, operation |-> "updateDocument",
        error |-> HandlerError]

\* the promise of a closeDocument handler has rejected and the listener has
\* the event
C20_WitnessRejected ==
  /\ result.op = "handlerRejected"
  /\ Len(errorEvents) >= 1
  /\ errorEvents[Len(errorEvents)].operation = "closeDocument"

\* C21: when a feature-request handler throws or its returned promise
\* rejects, the host caller gets the error and, besides, one adapter-error
\* event with the adapter's languageId and the operation name goes to every
\* error listener: within the call for a throw, through a pending rejection
\* for a rejecting promise.
C21_FeatureFailuresReported ==
  [][result'.op = "forward" /\ result'.invoked /\ errorListeners # <<>>
       => /\ result'.outcome = "threw"
               => errorEvents' =
                    errorEvents
                      \o ErrorEventsFor(<<[operation |-> result'.handler]>>,
                                        records[result'.rec].languageId)
          /\ result'.outcome = "rejected"
               => rejections' =
                    Append(rejections, [rec |-> result'.rec, operation |-> result'.handler,
                                        error |-> HandlerError])]_vars

\* the cleanup runs of `rec` counted on top of `runs`, every routine once
WithAllRun(runs, rec) ==
  [disposable |-> runs.disposable + rec.disposables,
   shutdown |-> runs.shutdown + (IF "shutdown" \in rec.handlers THEN 1 ELSE 0),
   dispose |-> runs.dispose + (IF rec.hasDispose THEN 1 ELSE 0)]

\* C22: when a disposable, the shutdown handler or the dispose handler fails
\* during unregisterLanguage, by throwing or by returning a promise that
\* rejects, the record is removed from the registry, every disposable and the
\* shutdown and dispose handlers are run, unregisterLanguage returns true,
\* and the error is reported through the error channel (at once for a throw,
\* as a pending rejection for a promise).
C22_FailingCleanupCompletes ==
  [][(/\ result'.op = "unregisterLanguage"
      /\ ~disposed
      /\ DocLang \in DOMAIN languages
      /\ records[languages[DocLang]].cleanup \in {"throw", "reject"})
       => /\ DocLang \notin DOMAIN languages'
          /\ result' = [op |-> "unregisterLanguage", code |-> "", value |-> TRUE]
          /\ cleanupRuns'[languages[DocLang]]
               = WithAllRun(cleanupRuns[languages[DocLang]], records[languages[DocLang]])
          /\ errorListeners # <<>>
               => \/ Len(errorEvents') > Len(errorEvents)
                  \/ Len(rejections') > Len(rejections)]_vars

\* the same for cleanup routines that fail by rejecting only
C22_RejectingCleanupCompletes ==
  [][(/\ result'.op = "unregisterLanguage"
      /\ ~disposed
      /\ DocLang \in DOMAIN languages
      /\ records[languages[DocLang]].cleanup = "reject")
       => /\ DocLang \notin DOMAIN languages'
          /\ result' = [op |-> "unregisterLanguage", code |-> "", value |-> TRUE]
          /\ cleanupRuns'[languages[DocLang]]
               = WithAllRun(cleanupRuns[languages[DocLang]], records[languages[DocLang]])
          /\ errorListeners # <<>> => Len(rejections') > Len(rejections)]_vars

\* the disposables the initialize of record r's adapter has registered: one
\* for every adapter of AdapterShapes that has an initialize
InitialDisposables(r) == IF records[r].hasContext THEN 1 ELSE 0

\* no cleanup routine of record r has run more than once
AtMostOnce(r) ==
  /\ cleanupRuns[r].disposable <= InitialDisposables(r)
  /\ cleanupRuns[r].shutdown <= 1
  /\ cleanupRuns[r].dispose <= 1

\* every cleanup routine of record r has run once
ExactlyOnce(r) ==
  /\ cleanupRuns[r].disposable = InitialDisposables(r)
  /\ cleanupRuns[r].shutdown = (IF "shutdown" \in records[r].handlers THEN 1 ELSE 0)
  /\ cleanupRuns[r].dispose = (IF records[r].hasDispose THEN 1 ELSE 0)

\* C23: under any interleaving of initialization failure, unregisterLanguage
\* and dispose, the shutdown handler, the dispose handler and each registered
\* disposable of a record are invoked at most once, and exactly once when the
\* record has been unregistered or the client disposed while it was
\* registered (its state is then `disposed`).
C23_CleanupExactlyOnce ==
  \A r \in 1..Len(records) :
    /\ AtMostOnce(r)
    /\ records[r].state = "disposed" => ExactlyOnce(r)

\* the second half of it alone
C23_DisposedRecordsCleanedOnce ==
  \A r \in 1..Len(records) : records[r].state = "disposed" => ExactlyOnce(r)

RECURSIVE FirstReply(_)
\* the first value other than undefined a listener of `listeners` returns,
\* null when there is none; a listener that throws returns nothing
FirstReply(listeners) ==
  IF listeners = <<>> THEN "null"
  ELSE IF Head(listeners) \notin ThrowingListeners /\ Reply(Head(listeners)) # "undefined"
  THEN Reply(Head(listeners))
  ELSE FirstReply(Tail(listeners))

\* C24: for a server request whose method is not a built-in one,
\* handleServerRequest returns the first value other than undefined that a
\* notification listener of the method returns, in registration order, and
\* null when the method has no listener or every listener returns undefined.
C24_FirstReplyWins ==
  [][result'.op = "handleServerRequest" /\ result'.key \notin NullRequests
       => result'.value = FirstReply(ListenersAt(notificationListeners, result'.key))]_vars

\* the same while at most one listener of the method answers
C24_SoleReply ==
  [][(/\ result'.op = "handleServerRequest"
      /\ result'.key \notin NullRequests
      /\ Cardinality({l \in Range(ListenersAt(notificationListeners, result'.key)) :
                        Reply(l) # "undefined"}) <= 1)
       => result'.value = FirstReply(ListenersAt(notificationListeners, result'.key))]_vars

\* C25: getDocument and listDocuments of an adapter's context return only
\* documents of that adapter's language (getDocument returns no document for
\* one owned by another language), and what they return are copies: changing
\* a returned document changes nothing in the store.
C25_ContextDocuments ==
  [][/\ result'.op \in {"getDocument", "listDocuments"}
          => \A d \in Returned' :
               d.defined => d.languageId = records[result'.rec].languageId
     /\ result'.op = "changeReturned" => documents' = documents]_vars

\* the same without the language of what getDocument returns
C25_ContextCopies ==
  [][/\ result'.op = "listDocuments"
          => /\ \A d \in Returned' : d.languageId = records[result'.rec].languageId
             /\ {d.uri : d \in Returned'}
                  = {u \in DOMAIN documents :
                       documents[u].languageId = records[result'.rec].languageId}
     /\ result'.op = "getDocument"
          => \A d \in Returned' :
               d.defined => /\ d.uri \in DOMAIN documents
                            /\ d.text = documents[d.uri].text
                            /\ d.version = documents[d.uri].version
     /\ result'.op = "changeReturned" => documents' = documents]_vars

\* C26: for every payload, multi-byte characters included, and every split
\* of its frame (Content-Length: N, CRLF CRLF, the payload; N its length in
\* bytes) into fragments, the decoder fed with the fragments in order yields
\* exactly one payload, equal to it, and its buffer is then empty.
C26_FrameRoundTrip ==
  conn.incoming = <<>> => conn.decoded = conn.framed /\ conn.buffer = <<>>

\* the same for payloads of one-byte characters
C26_AsciiRoundTrip ==
  (/\ conn.incoming = <<>>
   /\ \A i \in 1..Len(conn.framed) : "U+00E9" \notin Range(conn.framed[i]))
    => conn.decoded = conn.framed /\ conn.buffer = <<>>

\* the request frame written with id
RequestOf(id) ==
  CHOOSE w \in Range(conn.written) : w.kind = "request" /\ w.id = id

\* the events the step has emitted
NewEvents == SubSeq(conn'.emitted, Len(conn.emitted) + 1, Len(conn'.emitted))

\* C27: when the timeout of a sendRequest elapses before the response with
\* its id has arrived, the pending entry is removed and the future fails with
\* a timeout error that names the request method; a response for the id that
\* arrives afterwards settles nothing and is emitted neither as response nor
\* as request nor as notification; a response that arrives before the timeout
\* cancels the timer, and the future it has settled is never failed by the
\* timeout.
C27_TimeoutAndResponse ==
  [][\A id \in 0..(conn.nextId - 1) :
       /\ (result'.op = "timeout" /\ id \in conn.timers /\ id \notin conn'.timers)
            => /\ id \in DOMAIN conn.pending
               /\ id \notin DOMAIN conn'.pending
               /\ conn'.futures[id + 1].state = "rejected"
               /\ conn'.futures[id + 1].by = "timeout"
               /\ conn'.futures[id + 1].names = RequestOf(id).method
       /\ (result'.op = "data" /\ conn.futures[id + 1].by = "timeout")
            => /\ conn'.futures[id + 1] = conn.futures[id + 1]
               /\ \A i \in 1..Len(NewEvents) :
                    NewEvents[i].event \in {"response", "request", "notification"}
                      => JsonMessage(NewEvents[i].message).id # id
       /\ (result'.op = "data" /\ conn.futures[id + 1].state = "pending"
             /\ conn'.futures[id + 1].by \in {"response", "responseError"})
            => id \notin conn'.timers /\ id \notin DOMAIN conn'.pending
       /\ conn.futures[id + 1].by \in {"response", "responseError"}
            => conn'.futures[id + 1] = conn.futures[id + 1]]_vars

\* the response for request 0 has arrived after its timeout had elapsed
C27_Witness ==
  /\ result.op = "data"
  /\ conn.futures # <<>>
  /\ conn.futures[1].by = "timeout"
  /\ conn.decoded = <<stringify("result:0", <<>>)>>

\* the response for request 0 has arrived while it was pending
C27_WitnessInTime ==
  /\ result.op = "data"
  /\ conn.futures # <<>>
  /\ conn.futures[1].by = "response"
  /\ ~conn.closed

SendOps ==
  {"connSendRequest", "connSendNotification", "connSendResponse", "connSendErrorResponse"}

CloseEvents == {i \in 1..Len(conn.emitted) : conn.emitted[i].event = "close"}

\* what holds of a closed connection
ClosedState ==
  /\ Cardinality(CloseEvents) <= 1
  /\ conn.closed => (/\ conn.pending = EmptyMap
                      /\ \A k \in DOMAIN conn.futures : conn.futures[k].state # "pending")

\* what a step does to a closed connection, and the step that closes it
ClosedStep ==
  /\ conn.closed => (conn'.closed /\ conn'.written = conn.written)
  /\ (conn.closed /\ result'.op \in SendOps)
       => (result'.code = ConnectionClosed /\ conn'.futures = conn.futures)
  /\ (~conn.closed /\ conn'.closed)
       => \A id \in DOMAIN conn.pending :
            /\ conn'.futures[id + 1].state = "rejected"
            /\ conn'.futures[id + 1].by \in {"close", "dispose"}

\* C28: after the connection has been disposed or its readable has ended or
\* closed, every request that was pending has been failed, the pending table
\* is empty and stays empty, sendNotification, sendRequest, sendResponse and
\* sendErrorResponse fail with the connection-closed error and write no
\* frame, and 'close' has been emitted at most once, whatever the number and
\* the order of the dispose calls and of the end and close events.
C28_ClosedConnection == []ClosedState /\ [][ClosedStep]_vars

\* a request was pending when the readable closed, the connection was then
\* disposed, and a later sendRequest has failed
C28_Witness ==
  /\ conn.closed
  /\ result.op = "connSendRequest"
  /\ result.code = ConnectionClosed
  /\ conn.futures # <<>>
  /\ conn.futures[1].by = "close"
  /\ Cardinality(CloseEvents) = 1

\* the requests written to process p, in send order
RequestsOn(p) ==
  LET OnP(w) == w.kind = "request" /\ w.process = p
  IN  SelectSeq(backend.wire, OnP)

\* the requests written by the adapter, in send order
RequestsWritten ==
  LET IsRequest(w) == w.kind = "request"
  IN  SelectSeq(backend.wire, IsRequest)

\* every pending id is the id of one request written to the current process
PendingOncePerId ==
  \A id \in DOMAIN backend.pendingRequests :
    Cardinality({i \in 1..Len(RequestsOn(backend.serverProcess)) :
                   RequestsOn(backend.serverProcess)[i].id = id}) = 1

C29_WitnessGo ==
  /\ backend.kind = "go"
  /\ \E p \in 1..backend.spawned : Len(RequestsOn(p)) = 2

\* the places in wire of the notifications issued on behalf of the host
HostFrames == {i \in 1..Len(backend.wire) : backend.wire[i].seq > 0}

\* the frame at i went to a process that had answered initialize and had
\* been sent initialized before
AfterInitialized(i) ==
  /\ \E j \in 1..(i - 1) :
       /\ backend.wire[j].process = backend.wire[i].process
       /\ backend.wire[j].kind = "notification"
       /\ backend.wire[j].method = "initialized"
  /\ \E k \in DOMAIN backend.runs :
       /\ backend.runs[k].process = backend.wire[i].process
       /\ backend.runs[k].state = "done"

\* every notification issued is either buffered or written, once
OncePerNotification ==
  \A n \in 1..backend.issued :
    Cardinality({i \in HostFrames : backend.wire[i].seq = n})
      + Cardinality({i \in 1..Len(backend.pendingNotifications) :
                       backend.pendingNotifications[i].seq = n}) = 1

\* the buffer and the wire keep the order of issue
InIssueOrder ==
  /\ \A i, j \in 1..Len(backend.pendingNotifications) :
       i < j => backend.pendingNotifications[i].seq < backend.pendingNotifications[j].seq
  /\ \A i, j \in HostFrames : i < j => backend.wire[i].seq < backend.wire[j].seq

BufferedOrWritten ==
  /\ \A i \in HostFrames : AfterInitialized(i)
  /\ OncePerNotification
  /\ InIssueOrder
  /\ backend.initialized => backend.pendingNotifications = <<>>

\* the step in which an initialization succeeds writes initialized and then
\* the buffered notifications, in the order of the buffer
FlushStep ==
  (~backend.initialized /\ backend'.initialized)
    => /\ backend'.pendingNotifications = <<>>
       /\ Len(backend'.wire) = Len(backend.wire) + 1 + Len(backend.pendingNotifications)
       /\ SubSeq(backend'.wire, 1, Len(backend.wire)) = backend.wire
       /\ backend'.wire[Len(backend.wire) + 1].method = "initialized"
       /\ \A i \in 1..Len(backend.pendingNotifications) :
            /\ backend'.wire[Len(backend.wire) + 1 + i].seq
                 = backend.pendingNotifications[i].seq
            /\ backend'.wire[Len(backend.wire) + 1 + i].method
                 = backend.pendingNotifications[i].method
            /\ backend'.wire[Len(backend.wire) + 1 + i].process = backend'.serverProcess

\* C30: in a real-backend adapter no notification issued on behalf of the
\* host (didOpen, didChange, didClose or a raw notification) is written to
\* the server before the initialize response has been received and the
\* initialized notification has been written; notifications issued earlier
\* are buffered and, once initialization succeeds, are written after
\* initialized in the order in which they were issued, each exactly once.
C30_NotificationsAfterInitialized == []BufferedOrWritten /\ [][FlushStep]_vars

\* an initialization has succeeded on the second process and has flushed two
\* notifications that were buffered while the first initialization failed
C30_Witness ==
  /\ result.op = "initContinues"
  /\ backend.initialized
  /\ backend.serverProcess = 2
  /\ Len(backend.wire) >= 3
  /\ backend.wire[Len(backend.wire)].seq = 2
  /\ backend.wire[Len(backend.wire) - 1].seq = 1
  /\ backend.wire[Len(backend.wire) - 2].method = "initialized"

\* the text-document-sync options of the initialize response
Negotiated == backend.initializationResult[1]

\* the frames the step has written
NewFrames == SubSeq(backend'.wire, Len(backend.wire) + 1, Len(backend'.wire))

\* C31: the document-sync notifications of a real-backend adapter follow the
\* text-document-sync options of the server's initialize response:
\* openDocument sends didOpen and closeDocument sends didClose only if
\* openClose is true; updateDocument sends no didChange for sync kind none,
\* exactly one content change with the full text for kind full, and for kind
\* incremental the range edits provided, or one full-text change when the
\* caller supplied none.
C31_SyncOptionsFollowed ==
  [][(backend.initialized /\ backend.initializationResult # <<>>)
       => /\ (result'.op \in {"openDocument", "closeDocument"} /\ ~Negotiated.openClose)
               => NewFrames = <<>>
          /\ (result'.op = "updateDocument" /\ Negotiated.change = 0)
               => NewFrames = <<>>
          /\ (result'.op = "updateDocument" /\ Negotiated.change = 1)
               => (Len(NewFrames) = 1 /\ NewFrames[1].content = <<"text">>)
          /\ (result'.op = "updateDocument" /\ Negotiated.change = 2)
               => (/\ Len(NewFrames) = 1
                   /\ NewFrames[1].content
                        = IF result'.changes = <<>> THEN <<"text">>
                          ELSE contentChanges(result'.changes))]_vars

\* with incremental sync and openClose the notifications are as stated
C31_IncrementalSync ==
  [][(backend.initialized /\ backend.initializationResult = <<IncrementalSync>>
        /\ result'.op \in {"openDocument", "updateDocument", "closeDocument"})
       => (/\ Len(NewFrames) = 1
           /\ NewFrames[1].method = NotificationOf[result'.op]
           /\ result'.op = "updateDocument"
                => NewFrames[1].content
                     = IF result'.changes = <<>> THEN <<"text">>
                       ELSE [i \in DOMAIN result'.changes |->
                               IF result'.changes[i].range THEN "range" ELSE "text"])]_vars

\* a response or an error response with the id of the i-th request of the
\* server has been written to the process that sent it
Answered(i) ==
  \E j \in 1..Len(backend.wire) :
    /\ backend.wire[j].kind \in {"response", "errorResponse"}
    /\ backend.wire[j].id = backend.received[i].id
    /\ backend.wire[j].process = backend.received[i].process

\* C32: every server-initiated request a real-backend adapter receives is
\* eventually answered with a response carrying the same id (the result of
\* applyWorkspaceEdit for workspace/applyEdit, of handleServerRequest for
\* any other method, or a JSON-RPC error response if handling throws).
C32_ServerRequestsAnswered ==
  \A i \in 1..MaxServerRequests : (Len(backend.received) >= i) ~> Answered(i)

Occurrences(e, p) ==
  Cardinality({i \in 1..Len(backend.log) :
                 backend.log[i].event = e /\ backend.log[i].process = p})

\* something of events has happened to the process of log entry i before it
Before(i, events) ==
  {j \in 1..(i - 1) : /\ backend.log[j].process = backend.log[i].process
                      /\ backend.log[j].event \in events}

\* C33: when the client shuts an initialized real-backend adapter down
\* (shutdown handler and dispose handler both run), the adapter writes the
\* shutdown request, waits for its response or for the shutdown timer, then
\* writes the exit notification, and only after that disposes the connection
\* and signals the process with SIGTERM; the connection is disposed once and
\* the process is signalled once.
C33_OrderlyShutdown ==
  /\ \A p \in 1..backend.spawned :
       Occurrences("dispose", p) <= 1 /\ Occurrences("SIGTERM", p) <= 1
  /\ \A i \in 1..Len(backend.log) :
       /\ backend.log[i].event \in {"dispose", "SIGTERM"} => Before(i, {"exit"}) # {}
       /\ backend.log[i].event = "exit"
            => \E j \in Before(i, {"response", "timer"}) : Before(j, {"shutdown"}) # {}

\* no connection is disposed twice in a teardown and the go adapter signals
\* no process twice
C33_DisposedOnce ==
  \A p \in 1..backend.spawned :
    /\ Occurrences("dispose", p) <= 1
    /\ backend.kind = "go" => Occurrences("SIGTERM", p) <= 1

\* what JSON.parse has made of the payload the step has decoded
DecodedMessage == JsonMessage(JsonParsed(conn'.decoded[Len(conn'.decoded)]))

\* the events of the step other than 'message'
Outcomes ==
  LET Classified(e) == e.event # "message"
  IN  SelectSeq(NewEvents, Classified)

\* no entry leaves the pending table and no promise is touched
PendingUntouched == conn'.pending = conn.pending /\ conn'.futures = conn.futures

\* the outcome of the one message a 'data' event has decoded
ClassifiedStep ==
  (result'.op = "data" /\ Len(conn'.decoded) = Len(conn.decoded) + 1)
    => IF DecodedMessage.id # NoId /\ DecodedMessage.id \in DOMAIN conn.pending
       THEN /\ DOMAIN conn'.pending = DOMAIN conn.pending \ {DecodedMessage.id}
            /\ conn'.futures[DecodedMessage.id + 1].state
                 = IF DecodedMessage.error THEN "rejected" ELSE "resolved"
            /\ conn'.futures[DecodedMessage.id + 1].by
                 = IF DecodedMessage.error THEN "responseError" ELSE "response"
            /\ \A k \in DOMAIN conn.futures :
                 k # DecodedMessage.id + 1 => conn'.futures[k] = conn.futures[k]
            /\ Len(Outcomes) = 1 /\ Outcomes[1].event = "response"
       ELSE IF DecodedMessage.id # NoId /\ DecodedMessage.method # ""
       THEN PendingUntouched /\ Len(Outcomes) = 1 /\ Outcomes[1].event = "request"
       ELSE IF DecodedMessage.method # ""
       THEN PendingUntouched /\ Len(Outcomes) = 1 /\ Outcomes[1].event = "notification"
       ELSE PendingUntouched /\ Outcomes = <<>>

\* C34: each message a connection decodes gets exactly one outcome, tested
\* in this order: an id that is in the pending table removes the entry and
\* resolves it with the result (or fails it with the error), also when the
\* message has a method; otherwise a message with an id and a method is
\* emitted as a request; otherwise a message with a method is emitted as a
\* notification; otherwise it is dropped.
C34_MessageClassified == [][ClassifiedStep]_vars

\* a message with a method and the id of the pending request has arrived and
\* has resolved the request
C34_Witness ==
  /\ result.op = "data"
  /\ conn.decoded # <<>>
  /\ conn.decoded[Len(conn.decoded)] = stringify("request:0", <<>>)
  /\ conn.futures # <<>>
  /\ conn.futures[1].by = "response"
  /\ conn.emitted[Len(conn.emitted)].event = "response"

----------------------------------------------------------------------------
(* Rename file operations of a workspace edit                               *)

RenameAToB == [kind |-> "rename", oldUri |-> Canonical(UriA), newUri |-> Canonical(UriB)]

\* the step is an applyWorkspaceEdit call that returned and whose edit is the
\* rename of UriA to UriB and nothing else
SoleRenameStep ==
  /\ EditReturns
  /\ result'.args.documentChanges.isArray
  /\ result'.args.documentChanges.items = <<RenameAToB>>
  /\ ~result'.args.changes.isObject

\* what the adapter of the renamed document is told
RenameCalls(document) ==
  <<[operation |-> "closeDocument", payload |-> [uri |-> UriA]],
    [operation |-> "openDocument",
     payload |-> [uri |-> UriB, languageId |-> document.languageId,
                  version |-> document.version, text |-> document.text]]>>

\* the document has moved from UriA to UriB and its adapter knows
Renamed ==
  /\ UriA \notin DOMAIN documents'
  /\ DOMAIN documents' = (DOMAIN documents \ {UriA}) \cup {UriB}
  /\ documents'[UriB] = [documents[UriA] EXCEPT !.uri = UriB]
  /\ \A uri \in DOMAIN documents \ {UriA, UriB} : documents'[uri] = documents[uri]
  /\ result'.failures = <<>> /\ result'.applied
  /\ LET r == RecordOf(documents[UriA].languageId) IN
       /\ r # 0
       /\ handlerCalls'[r] = handlerCalls[r] \o RenameCalls(documents[UriA])
       /\ \A q \in DOMAIN handlerCalls \ {r} : handlerCalls'[q] = handlerCalls[q]

\* the rename has failed with 'Document not open' and has changed nothing
RenameRefused ==
  /\ documents' = documents
  /\ handlerCalls' = handlerCalls
  /\ ~result'.applied
  /\ Len(result'.failures) = 1
  /\ result'.failures[1].reason = "Document not open"

RenameStep ==
  SoleRenameStep
    => /\ (UriA \in DOMAIN documents /\ UriB \notin DOMAIN documents) => Renamed
       /\ (UriA \notin DOMAIN documents) => RenameRefused

\* C35: a rename of documentChanges whose old URI is open and whose new URI
\* is another one that is not open removes the entry under the old URI, puts
\* the document under the new URI with the same text, languageId and version,
\* leaves every other document alone, gives the owning adapter
\* closeDocument(old) and then openDocument(new), and records no failure;
\* when the old URI is not open the change is recorded as the failure
\* 'Document not open' and the store is unchanged.
C35_RenameMovesDocument == [][RenameStep]_vars

\* UriA has been renamed to UriB
C35_Witness ==
  /\ EditCall /\ result.code = "" /\ result.applied
  /\ result.args.documentChanges.items = <<RenameAToB>>
  /\ ~result.args.changes.isObject
  /\ DOMAIN documents = {UriB}
  /\ documents[UriB].version = 3
  /\ Len(handlerCalls[1]) >= 3
  /\ handlerCalls[1][Len(handlerCalls[1])].operation = "openDocument"
  /\ handlerCalls[1][Len(handlerCalls[1]) - 1].operation = "closeDocument"

\* the rename of a document that is not open has been refused
C35_WitnessNotOpen ==
  /\ EditCall /\ result.code = "" /\ ~result.applied
  /\ result.args.documentChanges.items = <<RenameAToB>>
  /\ ~result.args.changes.isObject
  /\ DOMAIN documents = {UriB}
  /\ result.failures[1].reason = "Document not open"

----------------------------------------------------------------------------
(* updateDocument with change lists that fail                               *)

\* the adapters of the documents: one that is ready at once and one whose
\* initialize is pending
UpdateShapes == {DocShape, [DocShape EXCEPT !.init = "async"]}

\* a change without a text
NoTextChange == [hasText |-> FALSE, text |-> <<>>, hasRange |-> FALSE, range |-> NoRange]

\* a change whose range starts on line -1
BadPositionChange ==
  [hasText |-> TRUE, text |-> <<"x">>, hasRange |-> TRUE, range |-> At(0 - 1, 0)]

\* `changes`: not an array, [], a full text, and lists that fail at their
\* first or behind a valid first change
UpdateChanges ==
  {[isArray |-> FALSE, items |-> <<>>]}
    \cup {[isArray |-> TRUE, items |-> items] :
            items \in {<<>>, <<FullTextChange(<<"b">>)>>, <<NoTextChange>>,
                       <<BadPositionChange>>,
                       <<InsertInFront(<<"x">>), NoTextChange>>,
                       <<InsertInFront(<<"x">>), BadPositionChange>>}}

UpdateNext ==
  \/ \E a \in UpdateShapes : NeverRegistered(DocLang) /\ registerLanguage(DocLang, a)
  \/ \E r \in 1..Len(records) : InitializeResolved(r)
  \/ \E u \in {UriA, UriB} : openDocument(Canonical(u), DocLang, DocText, 1)
  \/ \E u \in {UriA, UriB}, v \in 1..3, c \in UpdateChanges :
       updateDocument(Canonical(u), v, c)

SpecUpdate == Init /\ [][UpdateNext]_vars

\* the step is an updateDocument call that has thrown
UpdateFails == DocStep("updateDocument") /\ result'.code # ""

\* C36: an updateDocument that fails (DocumentNotOpen, InvalidVersion,
\* InvalidChanges, or InvalidChange / InvalidPosition of any change of the
\* list, also of one behind valid changes) leaves the text and version of
\* every document as they were and gives no adapter an updateDocument call,
\* neither at once nor through the queue of an adapter that is initializing.
C36_FailedUpdateChangesNothing ==
  [][UpdateFails
       => /\ documents' = documents
          /\ handlerCalls' = handlerCalls
          /\ issuedOps' = issuedOps
          /\ records' = records]_vars

\* an update has failed at its second change, behind a valid first one
C36_Witness ==
  /\ result.op = "updateDocument"
  /\ result.code = InvalidPosition
  /\ result.args.changes.items = <<InsertInFront(<<"x">>), BadPositionChange>>
  /\ UriA \in DOMAIN documents
  /\ documents[UriA].text = DocText /\ documents[UriA].version = 1

----------------------------------------------------------------------------
(* A failed initialize and the records of other adapters                    *)

\* the step is the rejection of the initialize of record r
RejectionOf(r) == result'.op = "initializeRejected" /\ result'.rec = r

\* record q is in the registry before and after the step, as it was, and
\* none of its cleanup routines has run
Untouched(q) ==
  /\ \E l \in DOMAIN languages' : languages'[l] = q
  /\ records'[q] = records[q]
  /\ cleanupRuns'[q] = cleanupRuns[q]

\* C37: a failed initialize removes only the record whose initialize
\* failed: when A was unregistered while its initialize was pending and B
\* was registered under the same languageId, the rejection of A's initialize
\* leaves B in the registry with its state unchanged and runs none of B's
\* disposables or shutdown/dispose handlers.
C37_OnlyOwnRecordRemoved ==
  [][\A r \in 1..Len(records) :
       RejectionOf(r)
         => \A l \in DOMAIN languages : languages[l] # r => Untouched(languages[l])]_vars

\* the part of C37 that holds: the rejection of A's initialize leaves the
\* record of every other adapter as it was and runs none of its cleanup
\* routines
C37_OtherRecordsKept ==
  [][\A r \in 1..Len(records) :
       RejectionOf(r)
         => \A q \in 1..Len(records) :
              q # r => records'[q] = records[q] /\ cleanupRuns'[q] = cleanupRuns[q]]_vars

----------------------------------------------------------------------------
(* The exit of a process the go adapter has replaced                        *)

\* the step is the 'exit' event of a killed process while the adapter holds
\* a process it has spawned later
StaleExitStep ==
  /\ result'.op = "exitEvent"
  /\ backend.kind = "go"
  /\ backend.serverProcess # 0
  /\ \A p \in backend.dying \ backend'.dying : p < backend.serverProcess

\* C38: in the go adapter the exit or close event of a process spawned
\* earlier (or of its connection) never disposes the connection, clears the
\* process handle or resets the initialized flag of a process spawned later,
\* such as the replacement of a process that a failed initialization killed.
C38_StaleExitIgnored ==
  [][StaleExitStep
       => /\ backend'.serverProcess = backend.serverProcess
          /\ backend'.initialized = backend.initialized
          /\ backend'.initPromise = backend.initPromise
          /\ backend'.pendingRequests = backend.pendingRequests]_vars

----------------------------------------------------------------------------
(* The promises of sendRequest                                              *)

\* who may settle the promise of a request: the response with its id, its
\* timer, an error of a stream or of JSON.parse, the close of a stream, and
\* dispose
Settlers == {"response", "responseError", "timeout", "stream", "parse", "close", "dispose"}

\* resolve and reject of each promise have been called once at most, and by
\* one of the settlers if at all
SettledAtMostOnce ==
  \A k \in DOMAIN conn.futures :
    /\ conn.futures[k].calls <= 1
    /\ conn.futures[k].state = "pending" <=> conn.futures[k].calls = 0
    /\ conn.futures[k].state # "pending" => conn.futures[k].by \in Settlers
    /\ conn.futures[k].state = "pending" <=> (k - 1) \in DOMAIN conn.pending

\* a promise that is settled stays as it is
StaysSettled ==
  \A k \in DOMAIN conn.futures :
    conn.futures[k].state # "pending" => conn'.futures[k] = conn.futures[k]

\* the promise of request id is settled
IsSettled(id) ==
  (id + 1) \in DOMAIN conn.futures /\ conn.futures[id + 1].state # "pending"

\* C39: every promise sendRequest returns is settled at most once, by
\* exactly one of the response with its id, its timeout, a transport or parse
\* error of the connection, or close/dispose of the connection; and a request
\* with a positive timeout, whose timer is armed when sendRequest returns, is
\* settled eventually.
C39_SettledOnce ==
  /\ []SettledAtMostOnce
  /\ [][StaysSettled]_vars
  /\ \A id \in 0..(MaxRequests - 1) : (id \in conn.timers) ~> IsSettled(id)

\* one request has timed out and dispose has rejected another
C39_Witness ==
  /\ Len(conn.futures) = 2
  /\ conn.futures[1].by = "timeout" /\ conn.futures[1].calls = 1
  /\ conn.futures[2].by = "dispose" /\ conn.futures[2].calls = 1

----------------------------------------------------------------------------
(* applyTextEdits on edit lists that do not overlap                         *)

MaxEdits == 2

\* one line, two lines and no text
EditTexts == {<<"a", "b">>, <<"a", LF, "b">>, <<>>}

\* positions in and behind the lines of these texts
EditPositions == {Position(line, character) : line \in {0, 1}, character \in {0, 1, 3}}

\* p is not behind q in document order
NotBehind(p, q) == p.line < q.line \/ (p.line = q.line /\ p.character <= q.character)

EditRanges ==
  {range \in [start : EditPositions, end : EditPositions] :
     NotBehind(range.start, range.end)}

TextEdits ==
  {[range |-> range, newText |-> newText] :
     range \in EditRanges, newText \in {<<>>, <<"x", "y">>, <<LF>>}}

EditLists == UNION {[1..n -> TextEdits] : n \in 1..MaxEdits}

\* applyTextEdits(text, edits) as a caller sees it; one call is made
CallApplyTextEdits(text, edits) ==
  /\ result.op # "applyTextEdits"
  /\ LET applied == applyTextEdits(text, edits) IN
       result' = [op |-> "applyTextEdits", code |-> applied.err,
                  text |-> text, edits |-> edits, value |-> applied.text]
  /\ UNCHANGED <<client, wire>>

TextEditsNext == \E text \in EditTexts, edits \in EditLists : CallApplyTextEdits(text, edits)

SpecTextEdits == Init /\ [][TextEditsNext]_vars

\* the ranges of the list are valid, start at pairwise distinct positions and
\* do not overlap
Disjoint(edits) ==
  /\ \A i \in 1..Len(edits) :
       ValidRange(edits[i].range) /\ NotBehind(edits[i].range.start, edits[i].range.end)
  /\ \A i, j \in 1..Len(edits) :
       i # j => /\ edits[i].range.start # edits[j].range.start
                /\ \/ NotBehind(edits[i].range.end, edits[j].range.start)
                   \/ NotBehind(edits[j].range.end, edits[i].range.start)

\* position p lies in `text`: on one of its lines and not behind its end
InText(text, p) ==
  /\ p.line < Len(SplitLines(text))
  /\ p.character <= Len(SplitLines(text)[p.line + 1])

RECURSIVE Replaced(_, _, _)
\* `text` from offset `from` on with every range of `edits`, a set, taken
\* against `text` itself and replaced by its newText
Replaced(text, edits, from) ==
  IF edits = {} THEN SliceFrom(text, from)
  ELSE LET first == CHOOSE e \in edits :
                      \A other \in edits : NotBehind(e.range.start, other.range.start)
       IN  SubSeq(text, from + 1, offsetAt(text, first.range.start).offset)
             \o first.newText
             \o Replaced(text, edits \ {first}, offsetAt(text, first.range.end).offset)

\* the edits of a list, as a set
EditsOf(edits) == {edits[i] : i \in 1..Len(edits)}

\* the latest call of applyTextEdits has returned the text with all ranges
\* replaced at once
ReplacedAtOnce ==
  /\ result.code = ""
  /\ result.value = Replaced(result.text, EditsOf(result.edits), 0)

\* C40: for an edit list whose ranges are valid, do not overlap pairwise and
\* start at pairwise distinct positions, applyTextEdits returns the text in
\* which every range, read against the original text, is replaced by its
\* newText, all at once; the result is the same for every order of the list
\* and the original text outside the ranges is kept.
C40_SimultaneousReplacement ==
  (result.op = "applyTextEdits" /\ Disjoint(result.edits)) => ReplacedAtOnce

\* the part of C40 that holds: the same for edit lists whose positions all
\* lie in the text
C40_PositionsInText ==
  (/\ result.op = "applyTextEdits" /\ Disjoint(result.edits)
   /\ \A i \in 1..Len(result.edits) :
        /\ InText(result.text, result.edits[i].range.start)
        /\ InText(result.text, result.edits[i].range.end))
    => ReplacedAtOnce

====
